---- MODULE Spec2Model ----
(***************************************************************************)
(* A model of dmx-rdm-rs: the RDM packet codec, the responder engine       *)
(* (RdmResponder in dmx_receiver.rs and RdmResponderPackageHandler in      *)
(* rdm_responder.rs), the controller's request/response matching, the      *)
(* binary-search discovery of utils.rs (on an ideal bus, and on a line     *)
(* that answers anything and delays replies), the construction of          *)
(* addresses and the writes of the driver layer.                           *)
(*                                                                         *)
(* Bytes are the integers 0..255.  A u16 is an integer 0..65535.  A u32    *)
(* and a u64 do not fit TLC's integers, so a device id (u32) is kept as    *)
(* its 4 big-endian bytes and a 48-bit UID value (u64) as its 6 big-endian *)
(* bytes; the order of two such values is the lexicographic order of the   *)
(* byte sequences.                                                         *)
(***************************************************************************)
EXTENDS Integers, Sequences, FiniteSets, TLC

(***************************************************************************)
(* Program constants.                                                      *)
(***************************************************************************)
SC_RDM == 204
SC_SUB_MESSAGE == 1
DMX_NULL_START == 0
DMX_MAX_PACKAGE_SIZE == 513
PREAMBLE_BYTE == 254
SEPARATOR_BYTE == 170
RDM_MIN_PACKAGE_SIZE == 22
RDM_MAX_PACKAGE_SIZE == 257
RDM_MAX_PARAMETER_DATA_LENGTH == 231
RDM_MAX_STATUS_PACKAGES_PER_REQUEST == 25
RDM_STATUS_MESSAGE_SIZE == 9

DISC_UNIQUE_BRANCH == 1
DISC_MUTE == 2
DISC_UN_MUTE == 3
IDENTIFY_DEVICE == 4096
SOFTWARE_VERSION_LABEL == 192
DMX_START_ADDRESS == 240
QUEUED_MESSAGE == 32
STATUS_MESSAGES == 48
SUPPORTED_PARAMETERS == 80
DEVICE_INFO == 96

DiscoveryCommand == 16
GetCommand == 32
SetCommand == 48
DiscoveryCommandResponse == 17
GetCommandResponse == 33
SetCommandResponse == 49

ResponseTypeAck == 0
ResponseTypeAckTimer == 1
ResponseTypeNackReason == 2
ResponseTypeAckOverflow == 3

NackUnknownPid == 0
NackFormatError == 1
NackUnsupportedCommandClass == 5
NackDataOutOfRange == 6
NackSubDeviceOutOfRange == 9

StatusNone == 0
StatusGetLastMessage == 1
StatusAdvisory == 2
StatusWarning == 3
StatusError == 4
StatusAdvisoryCleared == 18
StatusWarningCleared == 19
StatusErrorCleared == 20

(***************************************************************************)
(* Integers of fixed width and byte sequences.                             *)
(***************************************************************************)
Byte == 0..255

Min(a, b) == IF a <= b THEN a ELSE b

\* u16::to_be_bytes
U16Bytes(v) == << v \div 256, v % 256 >>

\* u16::from_be_bytes
U16FromBytes(b) == b[1] * 256 + b[2]

\* the bytes s[from..to) of a slice, 0-based as in the source
Slice(s, from, to) == SubSeq(s, from + 1, to)

\* the order of two big-endian byte sequences of the same length: a <= b
RECURSIVE BytesLeq(_, _)
BytesLeq(a, b) ==
    IF Len(a) = 0 THEN TRUE
    ELSE IF a[1] < b[1] THEN TRUE
    ELSE IF a[1] > b[1] THEN FALSE
    ELSE BytesLeq(Tail(a), Tail(b))

RECURSIVE SumBytes(_)
SumBytes(s) ==
    IF Len(s) = 0 THEN 0
    ELSE IF Len(s) = 1 THEN s[1]
    ELSE SumBytes(SubSeq(s, 1, Len(s) \div 2)) + SumBytes(SubSeq(s, Len(s) \div 2 + 1, Len(s)))

\* a checksum that leaves the first byte out
calculate_checksum_of_tail(data) == SumBytes(Tail(data)) % 65536

\* utils.rs calculate_checksum: the wrapping 16-bit sum of the bytes
calculate_checksum(data) == SumBytes(data) % 65536

(***************************************************************************)
(* Addressing: unique_identifier.rs                                        *)
(***************************************************************************)
U32_MAX == << 255, 255, 255, 255 >>
U16_MAX == 65535

\* struct UniqueIdentifier { manufacturer_uid: u16, device_uid: u32 }
Uid(m, d) == [manufacturer_uid |-> m, device_uid |-> d]

NoUid == Uid(0, << 0, 0, 0, 0 >>)

\* enum PackageAddress, in one record shape
Broadcast == [kind |-> "Broadcast", manufacturer |-> U16_MAX, uid |-> NoUid]
ManufacturerBroadcast(m) == [kind |-> "ManufacturerBroadcast", manufacturer |-> m, uid |-> NoUid]
Device(u) == [kind |-> "Device", manufacturer |-> u.manufacturer_uid, uid |-> u]

\* UniqueIdentifier::to_bytes
UidToBytes(u) == U16Bytes(u.manufacturer_uid) \o u.device_uid

\* PackageAddress::from_bytes
AddrFromBytes(buffer) ==
    LET manufacturer_uid == U16FromBytes(Slice(buffer, 0, 2))
        device_uid == Slice(buffer, 2, 6)
    IN  IF device_uid = U32_MAX
        THEN IF manufacturer_uid = U16_MAX
             THEN Broadcast
             ELSE ManufacturerBroadcast(manufacturer_uid)
        ELSE Device(Uid(manufacturer_uid, device_uid))

\* PackageAddress::to_bytes
AddrToBytes(a) ==
    CASE a.kind = "Broadcast" -> << 255, 255, 255, 255, 255, 255 >>
      [] a.kind = "ManufacturerBroadcast" -> U16Bytes(a.manufacturer) \o U32_MAX
      [] OTHER -> UidToBytes(a.uid)

\* is_broadcast that knows the global broadcast address only
is_global_broadcast(a) == a.kind = "Broadcast"

\* PackageAddress::is_broadcast
is_broadcast(a) == a.kind # "Device"

\* From<UniqueIdentifier> for u64, as 6 big-endian bytes
UidToU64(u) == UidToBytes(u)

\* From<PackageAddress> for u64, as 6 big-endian bytes
AddrToU64(a) ==
    CASE a.kind = "Broadcast" -> << 255, 255, 255, 255, 255, 255 >>
      [] a.kind = "ManufacturerBroadcast" -> U16Bytes(a.manufacturer) \o U32_MAX
      [] OTHER -> UidToU64(a.uid)

(***************************************************************************)
(* The packet codec: rdm_data.rs                                           *)
(***************************************************************************)
\* struct RdmRequestData
RequestData(dst, src, tn, port, mc, sub, cc, pid, data) ==
    [type |-> "Request", destination_uid |-> dst, source_uid |-> src,
     transaction_number |-> tn, port_id |-> port, message_count |-> mc,
     sub_device |-> sub, command_class |-> cc, parameter_id |-> pid,
     parameter_data |-> data]

\* struct RdmResponseData
ResponseData(dst, src, tn, rt, mc, sub, cc, pid, data) ==
    [type |-> "Response", destination_uid |-> dst, source_uid |-> src,
     transaction_number |-> tn, response_type |-> rt, message_count |-> mc,
     sub_device |-> sub, command_class |-> cc, parameter_id |-> pid,
     parameter_data |-> data]

\* RequestCommandClass::get_response_class
get_response_class(cc) ==
    CASE cc = DiscoveryCommand -> DiscoveryCommandResponse
      [] cc = GetCommand -> GetCommandResponse
      [] OTHER -> SetCommandResponse

RequestCommandClasses == {DiscoveryCommand, GetCommand, SetCommand}
ResponseCommandClasses == {DiscoveryCommandResponse, GetCommandResponse, SetCommandResponse}
ResponseTypes == {ResponseTypeAck, ResponseTypeAckTimer, ResponseTypeNackReason, ResponseTypeAckOverflow}

\* serialize_rdm_data: the message_count byte (offset 17) is never written and
\* stays 0 from the zeroed buffer
serialize_rdm_data(d) ==
    LET pdl == Len(d.parameter_data)
        body == << SC_RDM, SC_SUB_MESSAGE, pdl + 24 >>
                \o AddrToBytes(d.destination_uid)
                \o UidToBytes(d.source_uid)
                \o << d.transaction_number,
                      IF d.type = "Request" THEN d.port_id ELSE d.response_type,
                      0 >>
                \o U16Bytes(d.sub_device)
                \o << d.command_class >>
                \o U16Bytes(d.parameter_id)
                \o << pdl >>
                \o d.parameter_data
    IN  body \o U16Bytes(calculate_checksum(body))

CodecOk(d) == [ok |-> TRUE, panic |-> FALSE, err |-> "", data |-> d]
CodecErr(e) == [ok |-> FALSE, panic |-> FALSE, err |-> e, data |-> << >>]
CodecPanic == [ok |-> FALSE, panic |-> TRUE, err |-> "panic", data |-> << >>]

\* deserialize_rdm_data.  The layout view has 24 bytes of fixed fields, so
\* parameter_data_and_checksum() is buffer[24..] and slicing it panics for a
\* buffer of 22 or 23 bytes, and [..len - 2] panics for one of 24 or 25.
deserialize_rdm_data(buffer) ==
    LET buffer_size == Len(buffer)
    IN  IF buffer_size < RDM_MIN_PACKAGE_SIZE THEN CodecErr("BufferTooSmall")
        ELSE IF buffer_size > RDM_MAX_PACKAGE_SIZE THEN CodecErr("BufferTooBig")
        ELSE IF calculate_checksum(Slice(buffer, 0, buffer_size - 2))
                # U16FromBytes(Slice(buffer, buffer_size - 2, buffer_size))
             THEN CodecErr("WrongChecksum")
        ELSE IF buffer[1] # SC_RDM \/ buffer[2] # SC_SUB_MESSAGE THEN CodecErr("WrongStartCode")
        ELSE IF buffer[3] # buffer_size - 2 THEN CodecErr("WrongMessageLength")
        ELSE IF buffer_size < 26 THEN CodecPanic
        ELSE
          LET parameter_data == Slice(buffer, 24, buffer_size - 2)
              command_class_field == buffer[21]
              is_request == command_class_field \in RequestCommandClasses
              dst == AddrFromBytes(Slice(buffer, 3, 9))
              src == AddrFromBytes(Slice(buffer, 9, 15))
              sub == U16FromBytes(Slice(buffer, 18, 20))
              pid == U16FromBytes(Slice(buffer, 21, 23))
          IN  IF is_request
              THEN IF src.kind # "Device" THEN CodecErr("SourceUidIsBroadcast")
                   ELSE CodecOk(RequestData(dst, src.uid, buffer[16], buffer[17], buffer[18],
                                            sub, command_class_field, pid, parameter_data))
              ELSE IF buffer[17] \notin ResponseTypes THEN CodecErr("ResponseTypeNotFound")
                   ELSE IF src.kind # "Device" THEN CodecErr("SourceUidIsBroadcast")
                   ELSE IF command_class_field \notin ResponseCommandClasses
                        THEN CodecErr("CommandClassNotFound")
                   ELSE CodecOk(ResponseData(dst, src.uid, buffer[16], buffer[17], buffer[18],
                                             sub, command_class_field, pid, parameter_data))

(***************************************************************************)
(* Typed payloads: rdm_types.rs, types.rs                                  *)
(***************************************************************************)
NoAddress == 65535

\* a range check that lets the address 0 through
DmxStartAddressValidFromZero(start_address) ==
    start_address = NoAddress \/ start_address <= 512

\* TryFrom<u16> for DmxStartAddress: is the value one a DmxStartAddress can hold
DmxStartAddressValid(start_address) ==
    start_address = NoAddress \/ (start_address >= 1 /\ start_address <= 512)

\* DmxStartAddress::serialize (the address is kept as its wire value)
DmxStartAddressSerialize(a) == U16Bytes(a)

\* NackReason::serialize
NackSerialize(reason) == U16Bytes(reason)

KnownStatusTypes == {StatusNone, StatusGetLastMessage, StatusAdvisory, StatusWarning,
                     StatusError, StatusAdvisoryCleared, StatusWarningCleared,
                     StatusErrorCleared}

\* TryFrom<u8> for StatusType: 0x14 is mapped to StatusWarningCleared
StatusTypeTryFrom(value) ==
    CASE value = 20 -> StatusWarningCleared
      [] OTHER -> value

\* StatusType::deserialize
StatusTypeDeserialize(data) ==
    IF Len(data) # 1 THEN [ok |-> FALSE, v |-> 0]
    ELSE IF data[1] \notin KnownStatusTypes THEN [ok |-> FALSE, v |-> 0]
    ELSE [ok |-> TRUE, v |-> StatusTypeTryFrom(data[1])]

\* struct StatusMessage
StatusMessage(sub, st, id, v1, v2) ==
    [sub_device_id |-> sub, status_type |-> st, status_message_id |-> id,
     data_value_1 |-> v1, data_value_2 |-> v2]

\* StatusMessage::serialize
StatusMessageSerialize(m) ==
    U16Bytes(m.sub_device_id) \o << m.status_type >> \o U16Bytes(m.status_message_id)
    \o U16Bytes(m.data_value_1) \o U16Bytes(m.data_value_2)

\* DiscoveryMuteResponse { all flags false, binding_uid: None }.serialize()
DiscoveryMuteResponseSerialize == << 0, 0 >>

\* DeviceInfo::serialize with the default RdmReceiverMetadata
DeviceInfoSerialize(dmx_footprint, dmx_start_address) ==
    << 1, 0 >> \o U16Bytes(0) \o U16Bytes(0) \o << 0, 0, 0, 0 >>
    \o U16Bytes(dmx_footprint) \o U16Bytes(1) \o U16Bytes(dmx_start_address)
    \o U16Bytes(0) \o << 0 >>

\* RdmReceiverMetadata::default().software_version_label = "dmx-rdm-rs device"
software_version_label ==
    << 100, 109, 120, 45, 114, 100, 109, 45, 114, 115, 32, 100, 101, 118, 105, 99, 101 >>

(***************************************************************************)
(* The responder engine: dmx_receiver.rs (RdmResponder) and                *)
(* rdm_responder.rs (RdmResponderPackageHandler).  The request handlers of *)
(* the two files are the same text; they are modelled once, as operators   *)
(* from the responder state s and the request to the successor state, the  *)
(* Option<RdmResponseData> returned and whether the handler panicked.      *)
(***************************************************************************)
\* Option::None of an Option<RdmResponseData>
NoneResp ==
    [type |-> "None", destination_uid |-> Broadcast, source_uid |-> NoUid,
     transaction_number |-> 0, response_type |-> 0, message_count |-> 0,
     sub_device |-> 0, command_class |-> 0, parameter_id |-> 0,
     parameter_data |-> << >>]

\* Option<UnfinishedRequest>
NoUnfinished == [some |-> FALSE, pid |-> 0, iteration |-> 0]
UnfinishedRequest(pid, iteration) == [some |-> TRUE, pid |-> pid, iteration |-> iteration]

INTERNALLY_SUPPORTED_PIDS == << QUEUED_MESSAGE, STATUS_MESSAGES >>

\* RdmResponder::new / RdmResponderPackageHandler::new
NewResponder(uid, pids) ==
    [uid |-> uid, supported_pids |-> pids, dmx_start_address |-> NoAddress,
     dmx_footprint |-> 1, discovery_muted |-> FALSE,
     unfinished_request |-> NoUnfinished, message_queue |-> << >>,
     status_vec |-> << >>, last_queued_message |-> NoneResp,
     last_status_vec_message |-> << >>]

\* what a request handler hands back
Handled(s, response) == [s |-> s, response |-> response, panic |-> FALSE]
Panicked(s) == [s |-> s, response |-> NoneResp, panic |-> TRUE]

\* get_message_count that counts one message more than the queue holds
get_message_count_stale(s) == (Len(s.message_queue) + 1) % 256

\* get_message_count: message_queue.len() as u8
get_message_count(s) == Len(s.message_queue) % 256

\* build_response that numbers the response one past the request
build_response_renumbered(request, response_type, response, message_count) ==
    IF request.destination_uid.kind # "Device" THEN NoneResp
    ELSE ResponseData(Device(request.source_uid), request.destination_uid.uid,
                      (request.transaction_number + 1) % 256, response_type, message_count,
                      request.sub_device, get_response_class(request.command_class),
                      request.parameter_id, response)

\* RdmRequestData::build_response followed by the .ok() of every caller:
\* None for a request that is not addressed to a Device
build_response(request, response_type, response, message_count) ==
    IF request.destination_uid.kind # "Device" THEN NoneResp
    ELSE ResponseData(Device(request.source_uid), request.destination_uid.uid,
                      request.transaction_number, response_type, message_count,
                      request.sub_device, get_response_class(request.command_class),
                      request.parameter_id, response)

\* macro build_nack!
build_nack(request, nack_reason, message_count) ==
    build_response(request, ResponseTypeNackReason, NackSerialize(nack_reason), message_count)

\* a verify_get_request! that looks at the sub device before the command class
verify_get_request_sub_device_first(s, request) ==
    IF is_broadcast(request.destination_uid)
    THEN [pass |-> FALSE, response |-> NoneResp]
    ELSE IF request.sub_device # 0
    THEN [pass |-> FALSE,
          response |-> build_nack(request, NackSubDeviceOutOfRange, get_message_count(s))]
    ELSE IF request.command_class # GetCommand
    THEN [pass |-> FALSE,
          response |-> build_nack(request, NackUnsupportedCommandClass, get_message_count(s))]
    ELSE [pass |-> TRUE, response |-> NoneResp]

\* macro verify_get_request!: does the request pass, and what is returned if not
verify_get_request(s, request) ==
    IF is_broadcast(request.destination_uid)
    THEN [pass |-> FALSE, response |-> NoneResp]
    ELSE IF request.command_class # GetCommand
    THEN [pass |-> FALSE,
          response |-> build_nack(request, NackUnsupportedCommandClass, get_message_count(s))]
    ELSE IF request.sub_device # 0
    THEN [pass |-> FALSE,
          response |-> build_nack(request, NackSubDeviceOutOfRange, get_message_count(s))]
    ELSE [pass |-> TRUE, response |-> NoneResp]

\* macro verify_disc_request!
verify_disc_request(s, request) ==
    IF request.command_class # DiscoveryCommand
    THEN [pass |-> FALSE,
          response |-> build_nack(request, NackUnsupportedCommandClass, get_message_count(s))]
    ELSE [pass |-> TRUE, response |-> NoneResp]

\* build_disc_mute_response
build_disc_mute_response(s, request) ==
    build_response(request, ResponseTypeAck, DiscoveryMuteResponseSerialize,
                   get_message_count(s))

\* handle_disc_mute that acknowledges and leaves discovery_muted as it is
handle_disc_mute_forgetful(s, request) ==
    LET v == verify_disc_request(s, request)
    IN  IF ~v.pass THEN Handled(s, v.response)
        ELSE IF Len(request.parameter_data) # 0 THEN Handled(s, NoneResp)
        ELSE Handled(s, build_disc_mute_response([s EXCEPT !.discovery_muted = TRUE], request))

\* handle_disc_mute
handle_disc_mute(s, request) ==
    LET v == verify_disc_request(s, request)
    IN  IF ~v.pass THEN Handled(s, v.response)
        ELSE IF Len(request.parameter_data) # 0 THEN Handled(s, NoneResp)
        ELSE LET t == [s EXCEPT !.discovery_muted = TRUE]
             IN  Handled(t, build_disc_mute_response(t, request))

\* handle_disc_unmute that does not look at the payload
handle_disc_unmute_of_any_payload(s, request) ==
    LET v == verify_disc_request(s, request)
    IN  IF ~v.pass THEN Handled(s, v.response)
        ELSE LET t == [s EXCEPT !.discovery_muted = FALSE]
             IN  Handled(t, build_disc_mute_response(t, request))

\* handle_disc_unmute
handle_disc_unmute(s, request) ==
    LET v == verify_disc_request(s, request)
    IN  IF ~v.pass THEN Handled(s, v.response)
        ELSE IF Len(request.parameter_data) # 0 THEN Handled(s, NoneResp)
        ELSE LET t == [s EXCEPT !.discovery_muted = FALSE]
             IN  Handled(t, build_disc_mute_response(t, request))

\* handle_get_software_version_label
handle_get_software_version_label(s, request) ==
    LET v == verify_get_request(s, request)
    IN  IF ~v.pass THEN Handled(s, v.response)
        ELSE Handled(s, build_response(request, ResponseTypeAck,
                 Slice(software_version_label, 0, Min(Len(software_version_label), 32)),
                 get_message_count(s)))

\* handle_device_info
handle_device_info(s, request) ==
    LET v == verify_get_request(s, request)
    IN  IF ~v.pass THEN Handled(s, v.response)
        ELSE Handled(s, build_response(request, ResponseTypeAck,
                 DeviceInfoSerialize(s.dmx_footprint, s.dmx_start_address),
                 get_message_count(s)))

\* the bytes of a list of pids, each a big-endian u16
PidBytes(pids) ==
    [i \in 1..(2 * Len(pids)) |->
        IF i % 2 = 1 THEN pids[(i + 1) \div 2] \div 256 ELSE pids[i \div 2] % 256]

MAX_PIDS_PER_RESPONSE == RDM_MAX_PARAMETER_DATA_LENGTH \div 2

\* a handler that counts a page also for a request it rejects
handle_supported_parameters_counting(s, request) ==
    LET v == verify_get_request(s, request)
    IN  Handled([s EXCEPT !.unfinished_request =
                    UnfinishedRequest(SUPPORTED_PARAMETERS, 1)], v.response)

\* handle_supported_parameters: every reply is filled with the whole list, and
\* extend_from_slice(..).unwrap() panics when the list outgrows the DataPack
handle_supported_parameters(s, request) ==
    LET v == verify_get_request(s, request)
        current_iteration ==
            IF s.unfinished_request.some /\ s.unfinished_request.pid = SUPPORTED_PARAMETERS
            THEN s.unfinished_request.iteration ELSE 0
        current_parameter_index == MAX_PIDS_PER_RESPONSE * current_iteration
        amount_pids == Len(s.supported_pids) + Len(INTERNALLY_SUPPORTED_PIDS)
        end_parameter_index == Min(amount_pids, current_parameter_index + MAX_PIDS_PER_RESPONSE)
        response_package == PidBytes(INTERNALLY_SUPPORTED_PIDS \o s.supported_pids)
    IN  IF ~v.pass THEN Handled(s, v.response)
        ELSE IF 2 * amount_pids > RDM_MAX_PARAMETER_DATA_LENGTH THEN Panicked(s)
        ELSE IF end_parameter_index # amount_pids
        THEN LET t == [s EXCEPT !.unfinished_request =
                          UnfinishedRequest(SUPPORTED_PARAMETERS, current_iteration + 1)]
             IN  Handled(t, build_response(request, ResponseTypeAckOverflow,
                                           response_package, get_message_count(t)))
        ELSE LET t == [s EXCEPT !.unfinished_request = NoUnfinished]
             IN  Handled(t, build_response(request, ResponseTypeAck,
                                           response_package, get_message_count(t)))

\* handle_dmx_start_address
handle_dmx_start_address(s, request) ==
    LET message_count == get_message_count(s)
    IN  CASE request.command_class = GetCommand ->
               Handled(s, build_response(request, ResponseTypeAck,
                          DmxStartAddressSerialize(s.dmx_start_address),
                          Len(s.message_queue) % 256))
          [] request.command_class = SetCommand ->
               IF Len(request.parameter_data) # 2
               THEN Handled(s, build_nack(request, NackFormatError, message_count))
               ELSE IF ~DmxStartAddressValid(U16FromBytes(request.parameter_data))
               THEN Handled(s, build_nack(request, NackDataOutOfRange, message_count))
               ELSE LET t == [s EXCEPT !.dmx_start_address =
                                            U16FromBytes(request.parameter_data)]
                    IN  Handled(t, build_response(request, ResponseTypeAck, << >>,
                                                  Len(t.message_queue) % 256))
          [] OTHER ->
               Handled(s, build_nack(request, NackUnsupportedCommandClass, message_count))

\* heapless::Vec::remove(index), 0-based
RemoveAt(vec, index) == Slice(vec, 0, index) \o Slice(vec, index + 1, Len(vec))

\* the filter of pop_filtered_statuses
StatusMatches(item, status_filter) == (item.status_type % 16) >= status_filter

\* the first RDM_MAX_STATUS_PACKAGES_PER_REQUEST entries that pass the filter
RECURSIVE FilterStatuses(_, _)
FilterStatuses(vec, status_filter) ==
    IF Len(vec) = 0 THEN << >>
    ELSE IF StatusMatches(vec[1], status_filter)
         THEN << vec[1] >> \o FilterStatuses(Tail(vec), status_filter)
         ELSE FilterStatuses(Tail(vec), status_filter)

RECURSIVE SerializeStatuses(_)
SerializeStatuses(items) ==
    IF Len(items) = 0 THEN << >>
    ELSE StatusMessageSerialize(items[1]) \o SerializeStatuses(Tail(items))

\* the loop `for index_to_remove in indexes_to_remove { status_vec.remove(..) }`
\* over the indexes index..count-1; Vec::remove panics on an index out of bounds
RECURSIVE RemoveIndexes(_, _, _)
RemoveIndexes(vec, index, count) ==
    IF index >= count THEN [vec |-> vec, panic |-> FALSE]
    ELSE IF index >= Len(vec) THEN [vec |-> vec, panic |-> TRUE]
    ELSE RemoveIndexes(RemoveAt(vec, index), index + 1, count)

\* pop_filtered_statuses: indexes_to_remove holds the positions in the
\* filtered iterator (enumerate follows filter), not those in status_vec
pop_filtered_statuses(s, status_filter) ==
    LET taken == Slice(s.status_vec, 0, Min(Len(s.status_vec), RDM_MAX_STATUS_PACKAGES_PER_REQUEST))
        matched == FilterStatuses(taken, status_filter)
        parameter_data == SerializeStatuses(matched)
        removed == RemoveIndexes(s.status_vec, 0, Len(matched))
    IN  [s |-> [s EXCEPT !.status_vec = removed.vec],
         parameter_data |-> parameter_data, panic |-> removed.panic]

\* the replay that keeps the transaction number of the first delivery
replay_with_old_number(s, request, message_count) ==
    IF s.last_queued_message.type = "None"
    THEN Handled(s, build_response(request, ResponseTypeAck, << >>, message_count))
    ELSE LET response == [s.last_queued_message EXCEPT !.message_count = message_count]
         IN  Handled([s EXCEPT !.last_queued_message = response], response)

\* the arm of handle_queued_message for StatusGetLastMessage: the stored
\* response is renumbered in place and a clone of it returned
replay_last_queued_message(s, request, message_count) ==
    IF s.last_queued_message.type = "None"
    THEN Handled(s, build_response(request, ResponseTypeAck, << >>, message_count))
    ELSE LET response == [s.last_queued_message EXCEPT
                             !.message_count = message_count,
                             !.transaction_number = request.transaction_number]
         IN  Handled([s EXCEPT !.last_queued_message = response], response)

\* handle_queued_message
handle_queued_message(s, request) ==
    LET v == verify_get_request(s, request)
        message_count == get_message_count(s)
        status_type_requested == StatusTypeDeserialize(request.parameter_data)
    IN  IF ~v.pass THEN Handled(s, v.response)
        ELSE IF ~status_type_requested.ok
        THEN Handled(s, build_nack(request, NackDataOutOfRange, message_count))
        ELSE IF status_type_requested.v = StatusNone
        THEN Handled(s, build_nack(request, NackDataOutOfRange, message_count))
        ELSE IF status_type_requested.v = StatusGetLastMessage
        THEN replay_last_queued_message(s, request, message_count)
        ELSE IF status_type_requested.v \notin {StatusWarning, StatusError, StatusAdvisory}
        THEN Handled(s, build_nack(request, NackDataOutOfRange, message_count))
        ELSE IF Len(s.message_queue) = 0
        THEN \* message_queue.pop_back() is None
             LET popped == pop_filtered_statuses(s, status_type_requested.v)
                 status_message_response ==
                     ResponseData(Device(request.source_uid), s.uid,
                                  request.transaction_number, ResponseTypeAck, 0, 0,
                                  get_response_class(request.command_class),
                                  STATUS_MESSAGES, popped.parameter_data)
             IN  IF popped.panic THEN Panicked(popped.s)
                 ELSE Handled([popped.s EXCEPT
                                  !.last_status_vec_message = popped.parameter_data,
                                  !.last_queued_message = status_message_response],
                              status_message_response)
        ELSE \* message_queue.pop_back() is Some(response_data)
             LET t == [s EXCEPT !.message_queue = Slice(s.message_queue, 0, Len(s.message_queue) - 1)]
                 response == [s.message_queue[Len(s.message_queue)] EXCEPT
                                 !.message_count = get_message_count(t),
                                 !.transaction_number = request.transaction_number]
             IN  Handled([t EXCEPT !.last_queued_message = response], response)

\* handle_status_messages that forgets the last message once it has replayed it
handle_status_messages_replaying_once(s, request) ==
    IF verify_get_request(s, request).pass
       /\ request.parameter_data = << StatusGetLastMessage >>
    THEN Handled([s EXCEPT !.last_status_vec_message = << >>],
                 build_response(request, ResponseTypeAck, s.last_status_vec_message,
                                get_message_count(s)))
    ELSE Handled(s, verify_get_request(s, request).response)

\* handle_status_messages
handle_status_messages(s, request) ==
    LET v == verify_get_request(s, request)
        message_count == get_message_count(s)
        status_type_requested == StatusTypeDeserialize(request.parameter_data)
    IN  IF ~v.pass THEN Handled(s, v.response)
        ELSE IF ~status_type_requested.ok
        THEN Handled(s, build_nack(request, NackFormatError, message_count))
        ELSE IF status_type_requested.v = StatusNone
        THEN Handled(s, build_response(request, ResponseTypeAck, << >>, message_count))
        ELSE IF status_type_requested.v = StatusGetLastMessage
        THEN Handled(s, build_response(request, ResponseTypeAck,
                                       s.last_status_vec_message, message_count))
        ELSE IF status_type_requested.v \in {StatusWarning, StatusError, StatusAdvisory}
        THEN LET popped == pop_filtered_statuses(s, status_type_requested.v)
             IN  IF popped.panic THEN Panicked(popped.s)
                 ELSE Handled([popped.s EXCEPT !.last_status_vec_message = popped.parameter_data],
                              build_response(request, ResponseTypeAck,
                                             popped.parameter_data, message_count))
        ELSE Handled(s, build_nack(request, NackDataOutOfRange, message_count))

(***************************************************************************)
(* The user's handler (DmxResponderHandler / RdmResponderHandlerFunc): its *)
(* result is an input of the model.  Through the context it may write      *)
(* discovery_muted ("mute", "unmute") or leave it ("keep").                *)
(***************************************************************************)
HandlerResult(kind, data, value, response, ctx) ==
    [kind |-> kind, data |-> data, value |-> value, response |-> response, ctx |-> ctx]

\* the writes of the handler through DmxReceiverContext
ApplyContext(s, hr) ==
    CASE hr.ctx = "mute" -> [s EXCEPT !.discovery_muted = TRUE]
      [] hr.ctx = "unmute" -> [s EXCEPT !.discovery_muted = FALSE]
      [] OTHER -> s

\* the match on the handler's RdmResult in handle_rdm / handle_rdm_request,
\* with its .ok(): the Option<RdmResponseData> it yields
HandlerResponse(s, request, hr) ==
    CASE hr.kind = "Acknowledged" ->
           build_response(request, ResponseTypeAck, hr.data, get_message_count(s))
      [] hr.kind = "AcknowledgedOverflow" ->
           build_response(request, ResponseTypeAckOverflow, hr.data, get_message_count(s))
      [] hr.kind = "NotAcknowledged" ->
           build_response(request, ResponseTypeNackReason, U16Bytes(hr.value), get_message_count(s))
      [] hr.kind = "AcknowledgedTimer" ->
           build_response(request, ResponseTypeAckTimer, U16Bytes(hr.value), get_message_count(s))
      [] hr.kind = "Custom" -> hr.response
      [] OTHER -> NoneResp

\* the address filter with every ManufacturerBroadcast let through
AddressedToAnyManufacturer(s, request) ==
    request.destination_uid.kind = "Device" => s.uid = request.destination_uid.uid

\* the address filter at the head of handle_rdm / handle_rdm_request
AddressedToMe(s, request) ==
    CASE request.destination_uid.kind = "ManufacturerBroadcast" ->
           request.destination_uid.manufacturer = s.uid.manufacturer_uid
      [] request.destination_uid.kind = "Device" -> s.uid = request.destination_uid.uid
      [] OTHER -> TRUE

\* a DiscoveryCommand with a parameter id that is no discovery pid
StrayDiscovery(request) ==
    /\ request.command_class = DiscoveryCommand
    /\ request.parameter_id \notin {DISC_UNIQUE_BRANCH, DISC_MUTE, DISC_UN_MUTE}

\* the range test with exclusive bounds
InBranchExclusive(s, request) ==
    LET lower_bound == AddrToU64(AddrFromBytes(Slice(request.parameter_data, 0, 6)))
        upper_bound == AddrToU64(AddrFromBytes(Slice(request.parameter_data, 6, 12)))
        own_uid == UidToU64(s.uid)
    IN  /\ ~s.discovery_muted
        /\ BytesLeq(lower_bound, own_uid) /\ lower_bound # own_uid
        /\ BytesLeq(own_uid, upper_bound) /\ upper_bound # own_uid

\* the test of DISC_UNIQUE_BRANCH: not muted and lower <= own uid <= upper
InBranch(s, request) ==
    LET lower_bound == AddrToU64(AddrFromBytes(Slice(request.parameter_data, 0, 6)))
        upper_bound == AddrToU64(AddrFromBytes(Slice(request.parameter_data, 6, 12)))
        own_uid == UidToU64(s.uid)
    IN  ~s.discovery_muted /\ BytesLeq(lower_bound, own_uid) /\ BytesLeq(own_uid, upper_bound)

\* the arms of `match request.parameter_id` that the two engines share
DispatchInternal(s, request) ==
    CASE request.parameter_id = DISC_MUTE -> handle_disc_mute(s, request)
      [] request.parameter_id = DISC_UN_MUTE -> handle_disc_unmute(s, request)
      [] request.parameter_id = SUPPORTED_PARAMETERS -> handle_supported_parameters(s, request)
      [] request.parameter_id = DEVICE_INFO -> handle_device_info(s, request)
      [] request.parameter_id = SOFTWARE_VERSION_LABEL -> handle_get_software_version_label(s, request)
      [] request.parameter_id = DMX_START_ADDRESS -> handle_dmx_start_address(s, request)
      [] request.parameter_id = QUEUED_MESSAGE -> handle_queued_message(s, request)
      [] OTHER -> handle_status_messages(s, request)

InternalPids == {DISC_MUTE, DISC_UN_MUTE, SUPPORTED_PARAMETERS, DEVICE_INFO,
                 SOFTWARE_VERSION_LABEL, DMX_START_ADDRESS, QUEUED_MESSAGE, STATUS_MESSAGES}

(***************************************************************************)
(* The uart driver: dmx_driver.rs.  What the bus delivers to one poll and  *)
(* how the driver takes the answer are inputs of the model.                *)
(***************************************************************************)
\* kind: "frame" (wire holds the bytes on the bus), "timeout" or "driver_error";
\* write: "ok" (all bytes written), "short" (fewer written) or "error"
DriverEvent(kind, wire, write) == [kind |-> kind, wire |-> wire, write |-> write]

ReceiveOk(frame) == [ok |-> TRUE, panic |-> FALSE, err |-> "", frame |-> frame]
ReceiveErr(e) == [ok |-> FALSE, panic |-> FALSE, err |-> e, frame |-> << >>]
ReceivePanic == [ok |-> FALSE, panic |-> TRUE, err |-> "panic", frame |-> << >>]

\* DmxReceiver::receive_package: buffer[3..message_size] panics when the
\* message-length byte of an RDM frame is 0 (message_size = 2)
receive_package(ev) ==
    IF ev.kind = "timeout" THEN ReceiveErr("TimeoutError")
    ELSE IF ev.kind = "driver_error" THEN ReceiveErr("DriverError")
    ELSE LET bytes_read == Min(3, Len(ev.wire))
             start_code == ev.wire[1]
             message_size == IF start_code = SC_RDM /\ bytes_read = 3
                             THEN ev.wire[3] + 2
                             ELSE DMX_MAX_PACKAGE_SIZE
         IN  IF bytes_read < 2 THEN ReceiveErr("DeserializationError")
             ELSE IF message_size < 3 THEN ReceivePanic
             ELSE ReceiveOk(Slice(ev.wire, 0, Min(Len(ev.wire), message_size)))

\* RdmControllerDriver::send_rdm: the bytes put on the bus and the result
send_rdm(rdm_package, write) ==
    LET serialized_package == serialize_rdm_data(rdm_package)
    IN  CASE write = "error" -> [written |-> << >>, result |-> "DriverError"]
          [] write = "short" ->
               [written |-> Slice(serialized_package, 0, Len(serialized_package) - 1),
                result |-> "UartOverflow"]
          [] OTHER -> [written |-> serialized_package, result |-> "Ok"]

(***************************************************************************)
(* RdmResponder::poll and RdmResponder::handle_rdm: dmx_receiver.rs        *)
(***************************************************************************)
\* no request was decoded
NoReq ==
    [type |-> "None", destination_uid |-> Broadcast, source_uid |-> NoUid,
     transaction_number |-> 0, port_id |-> 0, message_count |-> 0,
     sub_device |-> 0, command_class |-> 0, parameter_id |-> 0,
     parameter_data |-> << >>]

\* the outcome of one poll: the successor state, the request decoded, the
\* response handed to send_rdm, the bytes written to the bus, whether a
\* discovery response was written, the result returned, and a panic
PollOut(s, request, response, written, disc, result, panic) ==
    [s |-> s, request |-> request, response |-> response, written |-> written,
     disc |-> disc, result |-> result, panic |-> panic]

\* the tail of handle_rdm: `if let Some(response_data) = response { .. }`
Deliver(s, request, response, write) ==
    IF response.type = "None" THEN PollOut(s, request, NoneResp, << >>, FALSE, "Ok", FALSE)
    ELSE IF is_broadcast(request.destination_uid)
    THEN PollOut(s, request, NoneResp, << >>, FALSE, "Ok", FALSE)
    ELSE LET sent == send_rdm(response, write)
         IN  PollOut(s, request, response, sent.written, FALSE, sent.result, FALSE)

\* handle_rdm once an internal handler has run
DeliverHandled(h, request, write) ==
    IF h.panic THEN PollOut(h.s, request, NoneResp, << >>, FALSE, "panic", TRUE)
    ELSE Deliver(h.s, request, h.response, write)

\* handle_rdm after RdmData::deserialize
HandleRdmData(s, rdm_data, hr, write) ==
    LET request == rdm_data.data
    IN  IF rdm_data.panic THEN PollOut(s, NoReq, NoneResp, << >>, FALSE, "panic", TRUE)
        ELSE IF ~rdm_data.ok
        THEN PollOut(s, NoReq, NoneResp, << >>, FALSE, "DeserializationError", FALSE)
        ELSE IF request.type # "Request"
        THEN PollOut(s, NoReq, NoneResp, << >>, FALSE, "NotMatching", FALSE)
        ELSE IF ~AddressedToMe(s, request)
        THEN PollOut(s, request, NoneResp, << >>, FALSE, "Ok", FALSE)
        ELSE IF StrayDiscovery(request)
        THEN PollOut(s, request, NoneResp, << >>, FALSE, "Ok", FALSE)
        ELSE IF request.parameter_id = DISC_UNIQUE_BRANCH
        THEN IF request.command_class = DiscoveryCommand
             THEN IF Len(request.parameter_data) # 12
                  THEN PollOut(s, request, NoneResp, << >>, FALSE, "WrongPackageSize", FALSE)
                  ELSE IF ~InBranch(s, request)
                  THEN PollOut(s, request, NoneResp, << >>, FALSE, "Ok", FALSE)
                  ELSE IF write = "error"
                  THEN PollOut(s, request, NoneResp, << >>, FALSE, "DriverError", FALSE)
                  ELSE PollOut(s, request, NoneResp, << >>, TRUE, "Ok", FALSE)
             ELSE Deliver(s, request,
                          build_nack(request, NackUnsupportedCommandClass, get_message_count(s)),
                          write)
        ELSE IF request.parameter_id \in InternalPids
        THEN DeliverHandled(DispatchInternal(s, request), request, write)
        ELSE IF hr.kind = "Error"
        THEN PollOut(ApplyContext(s, hr), request, NoneResp, << >>, FALSE, "HandlerError", FALSE)
        ELSE IF hr.kind = "NoResponse"
        THEN PollOut(ApplyContext(s, hr), request, NoneResp, << >>, FALSE, "Ok", FALSE)
        ELSE Deliver(ApplyContext(s, hr), request,
                     HandlerResponse(ApplyContext(s, hr), request, hr), write)

\* RdmResponder::handle_rdm
handle_rdm(s, package, hr, write) ==
    HandleRdmData(s, deserialize_rdm_data(package), hr, write)

\* the Ok(()) of handle_rdm becomes the Ok(true) of poll
PollResult(h) == IF h.result = "Ok" THEN [h EXCEPT !.result = "Ok(true)"] ELSE h

\* poll after receive_package
PollPackage(s, package, hr, write) ==
    IF package.panic THEN PollOut(s, NoReq, NoneResp, << >>, FALSE, "panic", TRUE)
    ELSE IF ~package.ok
    THEN PollOut(s, NoReq, NoneResp, << >>, FALSE,
                 IF package.err = "TimeoutError" THEN "Ok(false)" ELSE package.err, FALSE)
    ELSE IF Len(package.frame) = 0
    THEN PollOut(s, NoReq, NoneResp, << >>, FALSE, "WrongPackageSize", FALSE)
    ELSE IF package.frame[1] = SC_RDM
    THEN PollResult(handle_rdm(s, package.frame, hr, write))
    ELSE IF hr.kind = "Error"
    THEN PollOut(ApplyContext(s, hr), NoReq, NoneResp, << >>, FALSE, "HandlerError", FALSE)
    ELSE PollOut(ApplyContext(s, hr), NoReq, NoneResp, << >>, FALSE, "Ok(true)", FALSE)

\* RdmResponder::poll
poll(s, ev, hr) == PollPackage(s, receive_package(ev), hr, ev.write)

(***************************************************************************)
(* RdmResponderPackageHandler::handle_rdm_request: rdm_responder.rs        *)
(***************************************************************************)
\* Result<RdmAnswer, HandlerError>: kind is "Response", "DiscoveryResponse",
\* "NoResponse", "HandlerError" or "panic"
AnswerOut(s, kind, response) ==
    [s |-> s, kind |-> kind, response |-> response, panic |-> kind = "panic"]

\* RdmResponderPackageHandler::handle_disc_unique_branch
handle_disc_unique_branch(s, request) ==
    IF request.command_class # DiscoveryCommand
    THEN LET nack == build_nack(request, NackUnsupportedCommandClass, get_message_count(s))
         IN  IF nack.type = "None" THEN AnswerOut(s, "NoResponse", NoneResp)
             ELSE AnswerOut(s, "Response", nack)
    ELSE IF Len(request.parameter_data) # 12 THEN AnswerOut(s, "NoResponse", NoneResp)
    ELSE IF InBranch(s, request) THEN AnswerOut(s, "DiscoveryResponse", NoneResp)
    ELSE AnswerOut(s, "NoResponse", NoneResp)

\* the tail of handle_rdm_request: Some(response_data) is returned as
\* RdmAnswer::Response without a look at the destination
Answer(s, response) ==
    IF response.type = "None" THEN AnswerOut(s, "NoResponse", NoneResp)
    ELSE AnswerOut(s, "Response", response)

\* handle_rdm_request once an internal handler has run
AnswerHandled(h) ==
    IF h.panic THEN AnswerOut(h.s, "panic", NoneResp) ELSE Answer(h.s, h.response)

\* RdmResponderPackageHandler::handle_rdm_request
handle_rdm_request(s, request, hr) ==
    IF ~AddressedToMe(s, request) THEN AnswerOut(s, "NoResponse", NoneResp)
    ELSE IF StrayDiscovery(request) THEN AnswerOut(s, "NoResponse", NoneResp)
    ELSE IF request.parameter_id = DISC_UNIQUE_BRANCH
    THEN handle_disc_unique_branch(s, request)
    ELSE IF request.parameter_id \in InternalPids
    THEN AnswerHandled(DispatchInternal(s, request))
    ELSE IF hr.kind = "Error" THEN AnswerOut(ApplyContext(s, hr), "HandlerError", NoneResp)
    ELSE IF hr.kind = "NoResponse" THEN AnswerOut(ApplyContext(s, hr), "NoResponse", NoneResp)
    ELSE Answer(ApplyContext(s, hr), HandlerResponse(ApplyContext(s, hr), request, hr))

(***************************************************************************)
(* The devices and the inputs of the responder models                      *)
(***************************************************************************)
ResponderUid == Uid(1, << 0, 0, 0, 2 >>)
ControllerUid == Uid(2, << 0, 0, 0, 1 >>)
OtherUid == Uid(1, << 0, 0, 0, 3 >>)

\* the configured supported_pids of the responder
ConfiguredPids == << IDENTIFY_DEVICE >>

\* a request as the controller builds it (port_id 0, message_count 0)
Req(dst, tn, sub, cc, pid, data) ==
    RequestData(dst, ControllerUid, tn, 0, 0, sub, cc, pid, data)

\* DISC_UNIQUE_BRANCH ranges: one that holds ResponderUid, one that does not
BranchAll == << 0, 0, 0, 0, 0, 1 >> \o << 255, 255, 255, 255, 255, 254 >>
BranchNone == << 0, 1, 0, 0, 0, 3 >> \o << 0, 1, 0, 0, 0, 9 >>

Destinations ==
    {Device(ResponderUid), Device(OtherUid), Broadcast,
     ManufacturerBroadcast(1), ManufacturerBroadcast(2)}

AllPids ==
    {DISC_UNIQUE_BRANCH, DISC_MUTE, DISC_UN_MUTE, SUPPORTED_PARAMETERS, DEVICE_INFO,
     SOFTWARE_VERSION_LABEL, DMX_START_ADDRESS, QUEUED_MESSAGE, STATUS_MESSAGES,
     IDENTIFY_DEVICE}

\* a result of the user's handler that does not touch the context
Plain(kind, data, value, response) == HandlerResult(kind, data, value, response, "keep")

\* the default body of DmxResponderHandler::handle_rdm
DefaultHandler == Plain("NotAcknowledged", << >>, NackUnsupportedCommandClass, NoneResp)

\* a response a handler builds itself and returns as RdmResult::Custom
CustomResponse ==
    ResponseData(Device(ControllerUid), ResponderUid, 99, ResponseTypeAck, 7, 3,
                 GetCommandResponse, IDENTIFY_DEVICE, << 1 >>)

ContextWrites == {"keep", "mute", "unmute"}

HandlerResults ==
    {HandlerResult(k, << 1 >>, 5, CustomResponse, c) :
        k \in {"Acknowledged", "AcknowledgedOverflow", "NotAcknowledged",
               "AcknowledgedTimer", "NoResponse", "Custom", "Error"},
        c \in ContextWrites}

\* the pids whose handlers read the payload
PayloadPids == {DISC_MUTE, DISC_UN_MUTE, QUEUED_MESSAGE, STATUS_MESSAGES}

\* the requests answered by the engine itself
EngineRequests ==
    {Req(dst, 1, 0, cc, pid, << >>) :
        dst \in Destinations, cc \in RequestCommandClasses,
        pid \in AllPids \ {IDENTIFY_DEVICE}}
    \cup {Req(dst, 1, 0, cc, pid, << StatusError >>) :
        dst \in Destinations, cc \in RequestCommandClasses, pid \in PayloadPids}
    \cup {Req(dst, 1, 0, cc, DISC_UNIQUE_BRANCH, data) :
        dst \in Destinations, cc \in RequestCommandClasses,
        data \in {BranchAll, BranchNone}}
    \cup {Req(dst, 1, 0, cc, DMX_START_ADDRESS, << 0, 1 >>) :
        dst \in Destinations, cc \in RequestCommandClasses}

\* the requests handed to the user's handler
HandlerRequests ==
    {Req(dst, 1, 0, cc, IDENTIFY_DEVICE, << >>) :
        dst \in Destinations, cc \in RequestCommandClasses}

EngineFrames == {serialize_rdm_data(r) : r \in EngineRequests}
HandlerFrames == {serialize_rdm_data(r) : r \in HandlerRequests}

\* a frame with another start code: a DMX512 packet
DmxWires == {<< DMX_NULL_START, 10, 20, 30 >>, << DMX_NULL_START, 1 >>}

\* a well-formed GET DEVICE_INFO to the responder
DeviceInfoFrame ==
    serialize_rdm_data(Req(Device(ResponderUid), 1, 0, GetCommand, DEVICE_INFO, << >>))

\* 24 bytes with the right start codes, message length and checksum
ShortFrame ==
    LET body == << SC_RDM, SC_SUB_MESSAGE, 22 >> \o AddrToBytes(Device(ResponderUid))
                \o UidToBytes(ControllerUid) \o << 1, 0, 0, 0, 0, GetCommand, 0 >>
    IN  body \o U16Bytes(calculate_checksum(body))

\* frames that are no well-formed RDM request
MalformedWires ==
    {<< SC_RDM, SC_SUB_MESSAGE, 0 >>,
     << SC_RDM, SC_SUB_MESSAGE, 0, 7, 7 >>,
     << SC_RDM, SC_SUB_MESSAGE, 1 >>,
     << SC_RDM >>,
     << SC_RDM, SC_SUB_MESSAGE >>,
     << SC_RDM, SC_SUB_MESSAGE, 24, 1, 2, 3 >>,
     Slice(DeviceInfoFrame, 0, Len(DeviceInfoFrame) - 1),
     [DeviceInfoFrame EXCEPT ![3] = 30],
     [DeviceInfoFrame EXCEPT ![Len(DeviceInfoFrame)] = (@ + 1) % 256],
     DeviceInfoFrame \o << 0 >>,
     ShortFrame,
     serialize_rdm_data(CustomResponse)}

(***************************************************************************)
(* State                                                                   *)
(***************************************************************************)
VARIABLES
    responder,        \* the RdmResponder
    package_handler,  \* the RdmResponderPackageHandler
    panicked,         \* a call has panicked: the program has stopped
    last,             \* what the last call was given and what it did
    controller,       \* the DmxController
    call,             \* the rdm_request in progress
    discovery,        \* the bus of run_full_discovery and its outcome
    line              \* the requests made on the line and the replies still on it

vars == << responder, package_handler, panicked, last, controller, call, discovery, line >>

\* the record kept in `last`
Last(op, wire, request, hr, response, written, disc, result) ==
    [op |-> op, wire |-> wire, request |-> request, handler |-> hr.kind, ctx |-> hr.ctx,
     response |-> response, written |-> written, disc |-> disc, result |-> result]

NoLast == Last("none", << >>, NoReq, DefaultHandler, NoneResp, << >>, FALSE, "")

\* a call of the host on the responder, which answers nothing
HostCall(op) == [NoLast EXCEPT !.op = op]

\* DmxController::new
NewController(uid) == [uid |-> uid, current_transaction_id |-> 0, last_message_count |-> 0]

\* a call of DmxController::rdm_request: pc is "idle", "reading" (in its receive
\* loop), "done" (returned `result`) or "panic"; data is the payload of the
\* RdmResponseInfo and value the u16 of NotReady and NotAcknowledged
Call(pc, dst, result, data) ==
    [pc |-> pc, destination_uid |-> dst, result |-> result, data |-> data, value |-> 0]

NoCall == Call("idle", Broadcast, "", << >>)

\* a run of run_full_discovery on a bus: the uids of the responders on it, the
\* ones whose discovery is muted, the uid_array of the caller and the returned
\* count; pc is "idle", "running" or "done"; stack holds the calls of
\* discover_range in progress and returned the count the last one returned
NoDiscovery ==
    [pc |-> "idle", devices |-> {}, muted |-> {}, uid_array |-> << >>, found |-> 0,
     stack |-> << >>, returned |-> 0 - 1]

InitResponder ==
    /\ responder = NewResponder(ResponderUid, ConfiguredPids)
    /\ package_handler = NewResponder(ResponderUid, ConfiguredPids)
    /\ panicked = FALSE
    /\ last = NoLast

\* the line before the first request: requests counts the calls of
\* rdm_request, replies holds the responses still on their way, each with the
\* number of the request it answers, and read is the number of the request
\* whose reply the controller read last
NoLine == [requests |-> 0, replies |-> {}, read |-> 0]

InitController ==
    /\ controller = NewController(ControllerUid)
    /\ call = NoCall
    /\ line = NoLine

InitDiscovery == discovery = NoDiscovery

Init == InitResponder /\ InitController /\ InitDiscovery

(***************************************************************************)
(* Actions of the responder                                                *)
(***************************************************************************)
\* the effect of a poll that ended as `out`
PollDone(out, ev, hr) ==
    /\ responder' = out.s
    /\ panicked' = out.panic
    /\ last' = Last("poll", ev.wire, out.request, hr, out.response, out.written,
                    out.disc, out.result)

\* one call of RdmResponder::poll
Poll(ev, hr) ==
    /\ ~panicked
    /\ PollDone(poll(responder, ev, hr), ev, hr)
    /\ UNCHANGED << package_handler, controller, call, discovery, line >>

\* the effect of a handle_rdm_request that ended as `out`
RequestDone(out, request, hr) ==
    /\ package_handler' = out.s
    /\ panicked' = out.panic
    /\ last' = Last("handle_rdm_request", << >>, request, hr, out.response, << >>,
                    out.kind = "DiscoveryResponse", out.kind)

\* one call of RdmResponderPackageHandler::handle_rdm_request
HandleRdmRequest(request, hr) ==
    /\ ~panicked
    /\ RequestDone(handle_rdm_request(package_handler, request, hr), request, hr)
    /\ UNCHANGED << responder, controller, call, discovery, line >>

\* a request the engine answers itself arrives
PollRequest ==
    \E wire \in EngineFrames : Poll(DriverEvent("frame", wire, "ok"), DefaultHandler)

\* a request for the user's handler arrives
PollHandler ==
    \E wire \in HandlerFrames, hr \in HandlerResults :
        Poll(DriverEvent("frame", wire, "ok"), hr)

\* a DMX512 packet arrives: handle_dmx
PollDmx ==
    \E wire \in DmxWires, hr \in HandlerResults :
        /\ hr.kind \in {"NoResponse", "Error"}
        /\ Poll(DriverEvent("frame", wire, "ok"), hr)

\* bytes that are no well-formed request arrive
PollMalformed ==
    \E wire \in MalformedWires : Poll(DriverEvent("frame", wire, "ok"), DefaultHandler)

\* the driver reports a timeout or an error of its own
PollDriver ==
    \E kind \in {"timeout", "driver_error"} :
        Poll(DriverEvent(kind, << >>, "ok"), DefaultHandler)

\* the driver fails to write the answer
PollWriteFails ==
    \E wire \in {DeviceInfoFrame,
                 serialize_rdm_data(Req(Broadcast, 1, 0, DiscoveryCommand,
                                        DISC_UNIQUE_BRANCH, BranchAll))},
       write \in {"short", "error"} :
        Poll(DriverEvent("frame", wire, write), DefaultHandler)

Next ==
    \/ PollRequest
    \/ PollHandler
    \/ PollDmx
    \/ PollMalformed
    \/ PollDriver
    \/ PollWriteFails

Spec == Init /\ [][Next]_vars

\* the package handler under the same requests
PackageRequest == \E request \in EngineRequests : HandleRdmRequest(request, DefaultHandler)

PackageHandler ==
    \E request \in HandlerRequests, hr \in HandlerResults : HandleRdmRequest(request, hr)

NextPackage == PackageRequest \/ PackageHandler

SpecPackage == Init /\ [][NextPackage]_vars

(***************************************************************************)
(* The responder with a host that queues messages                          *)
(***************************************************************************)
\* the capacity of message_queue and of status_vec (the const generic MQ_SIZE)
MQ_SIZE == 2

\* responses the host has ready for the controller
QueuedMessages ==
    {ResponseData(Device(ControllerUid), ResponderUid, 0, ResponseTypeAck, 0, 0,
                  GetCommandResponse, IDENTIFY_DEVICE, << 1 >>),
     ResponseData(Device(ControllerUid), ResponderUid, 9, ResponseTypeAck, 0, 5,
                  SetCommandResponse, DMX_START_ADDRESS, << >>)}

\* get_message_queue_mut().push_back(message): refused when the deque is full
PushBack(message) ==
    /\ ~panicked
    /\ Len(responder.message_queue) < MQ_SIZE
    /\ responder' = [responder EXCEPT !.message_queue = Append(@, message)]
    /\ last' = HostCall("push_back")
    /\ UNCHANGED << package_handler, panicked, controller, call, discovery, line >>

HostQueues == \E message \in QueuedMessages : PushBack(message)

QueueRequests ==
    {Req(Device(ResponderUid), tn, 0, GetCommand, QUEUED_MESSAGE, data) :
        tn \in {1, 2},
        data \in {<< StatusError >>, << StatusAdvisory >>, << StatusGetLastMessage >>,
                  << StatusNone >>, << >>}}
    \cup {Req(Device(ResponderUid), 1, sub, cc, QUEUED_MESSAGE, << StatusError >>) :
        sub \in {0, 1}, cc \in {GetCommand, SetCommand}}
    \cup {Req(Device(ResponderUid), 1, sub, GetCommand, pid, << >>) :
        sub \in {0, 1},
        pid \in {DEVICE_INFO, SOFTWARE_VERSION_LABEL, SUPPORTED_PARAMETERS,
                 DMX_START_ADDRESS}}
    \cup {Req(Device(ResponderUid), 1, 1, SetCommand, DMX_START_ADDRESS, << 0, 1 >>),
          Req(Device(ResponderUid), 1, 0, GetCommand, STATUS_MESSAGES, << StatusError >>),
          Req(Device(ResponderUid), 1, 1, DiscoveryCommand, DISC_MUTE, << >>),
          Req(Broadcast, 1, 0, GetCommand, QUEUED_MESSAGE, << StatusError >>)}

QueueHandlerRequests ==
    {Req(Device(ResponderUid), 1, sub, GetCommand, IDENTIFY_DEVICE, << >>) : sub \in {0, 1}}

QueueFrames == {serialize_rdm_data(r) : r \in QueueRequests}
QueueHandlerFrames == {serialize_rdm_data(r) : r \in QueueHandlerRequests}

PollQueue ==
    \E wire \in QueueFrames : Poll(DriverEvent("frame", wire, "ok"), DefaultHandler)

PollQueueHandler ==
    \E wire \in QueueHandlerFrames, hr \in HandlerResults :
        /\ hr.ctx = "keep"
        /\ Poll(DriverEvent("frame", wire, "ok"), hr)

NextQueue == HostQueues \/ PollQueue \/ PollQueueHandler

SpecQueue == Init /\ [][NextQueue]_vars

(***************************************************************************)
(* The responder with a host that reports statuses                         *)
(***************************************************************************)
StatusMessages ==
    {StatusMessage(0, st, 1, 0, 0) :
        st \in {StatusAdvisory, StatusWarning, StatusError, StatusErrorCleared}}

\* get_status_vec_mut().push(status): refused when the vector is full
PushStatus(status) ==
    /\ ~panicked
    /\ Len(responder.status_vec) < MQ_SIZE
    /\ responder' = [responder EXCEPT !.status_vec = Append(@, status)]
    /\ last' = HostCall("push_status")
    /\ UNCHANGED << package_handler, panicked, controller, call, discovery, line >>

HostReports == \E status \in StatusMessages : PushStatus(status)

StatusRequests ==
    {Req(Device(ResponderUid), 1, 0, GetCommand, pid, << st >>) :
        pid \in {STATUS_MESSAGES, QUEUED_MESSAGE},
        st \in {StatusNone, StatusGetLastMessage, StatusAdvisory, StatusWarning,
                StatusError, StatusErrorCleared}}

StatusFrames == {serialize_rdm_data(r) : r \in StatusRequests}

PollStatus ==
    \E wire \in StatusFrames : Poll(DriverEvent("frame", wire, "ok"), DefaultHandler)

NextStatus == HostReports \/ PollStatus

SpecStatus == Init /\ [][NextStatus]_vars

(***************************************************************************)
(* The responder configured with long lists of supported pids              *)
(***************************************************************************)
\* a list longer than one page of 115 pids
ManyPids == 200

\* n manufacturer-specific pids
PidList(n) == [i \in 1..n |-> 32768 + i]

ConfiguredCounts == {0, 1, MAX_PIDS_PER_RESPONSE - 2, MAX_PIDS_PER_RESPONSE - 1, ManyPids}

InitParams ==
    /\ \E n \in ConfiguredCounts : responder = NewResponder(ResponderUid, PidList(n))
    /\ package_handler = NewResponder(ResponderUid, ConfiguredPids)
    /\ panicked = FALSE
    /\ last = NoLast
    /\ InitController
    /\ InitDiscovery

ParamsRequests ==
    {Req(dst, tn, sub, cc, SUPPORTED_PARAMETERS, << >>) :
        dst \in {Device(ResponderUid), Broadcast}, tn \in 1..3, sub \in {0, 1},
        cc \in {GetCommand, SetCommand}}
    \cup {Req(Device(ResponderUid), tn, 0, GetCommand, DEVICE_INFO, << >>) : tn \in 1..3}

ParamsFrames == {serialize_rdm_data(r) : r \in ParamsRequests}

PollParams ==
    \E wire \in ParamsFrames : Poll(DriverEvent("frame", wire, "ok"), DefaultHandler)

\* a request for a pid the engine hands to the handler, and what it answers
PollParamsHandler ==
    \E tn \in 1..2, hr \in {h \in HandlerResults : h.ctx = "keep"} :
        Poll(DriverEvent("frame",
                         serialize_rdm_data(Req(Device(ResponderUid), tn, 0, SetCommand,
                                                IDENTIFY_DEVICE, << 1 >>)),
                         "ok"),
             hr)

NextParams == PollParams \/ PollParamsHandler

SpecParams == InitParams /\ [][NextParams]_vars

(***************************************************************************)
(* The responder under discovery: DISC_UNIQUE_BRANCH probes with ranges    *)
(* around its uid and payloads of other lengths, DISC_MUTE and             *)
(* DISC_UN_MUTE                                                            *)
(***************************************************************************)
\* 6-byte bounds: the uid of the responder, its two neighbours, the lowest
\* uid, the all-devices address of its manufacturer and the broadcast address
BranchBounds ==
    {UidToBytes(ResponderUid), << 0, 1, 0, 0, 0, 1 >>, UidToBytes(OtherUid),
     << 0, 0, 0, 0, 0, 1 >>, << 0, 1, 255, 255, 255, 255 >>,
     << 255, 255, 255, 255, 255, 255 >>}

\* payloads of DISC_UNIQUE_BRANCH: every pair of bounds, and payloads that are
\* not 12 bytes long
BranchPayloads ==
    {lo \o hi : lo \in BranchBounds, hi \in BranchBounds}
    \cup {<< >>, Slice(BranchAll, 0, 11), BranchAll \o << 0 >>}

BranchRequests ==
    {Req(dst, 1, 0, DiscoveryCommand, DISC_UNIQUE_BRANCH, data) :
        dst \in {Broadcast, Device(ResponderUid), Device(OtherUid), ManufacturerBroadcast(1)},
        data \in BranchPayloads}
    \cup {Req(Device(ResponderUid), 1, 0, cc, DISC_UNIQUE_BRANCH, BranchAll) :
        cc \in {GetCommand, SetCommand}}

MuteRequests ==
    {Req(dst, 1, 0, DiscoveryCommand, pid, << >>) :
        dst \in {Broadcast, Device(ResponderUid)}, pid \in {DISC_MUTE, DISC_UN_MUTE}}

BranchFrames == {serialize_rdm_data(r) : r \in BranchRequests}
MuteFrames == {serialize_rdm_data(r) : r \in MuteRequests}

\* a DISC_UNIQUE_BRANCH arrives; the driver writes the answer or fails to
PollBranch ==
    \E wire \in BranchFrames, write \in {"ok", "error"} :
        Poll(DriverEvent("frame", wire, write), DefaultHandler)

\* a DISC_MUTE or a DISC_UN_MUTE arrives
PollMute == \E wire \in MuteFrames : Poll(DriverEvent("frame", wire, "ok"), DefaultHandler)

NextBranch == PollBranch \/ PollMute

SpecBranch == Init /\ [][NextBranch]_vars

(***************************************************************************)
(* The two responder engines under requests to every kind of destination   *)
(***************************************************************************)
\* a device of another manufacturer with the device id of the responder
TwinUid == Uid(2, << 0, 0, 0, 2 >>)

AddressDestinations == Destinations \cup {Device(TwinUid)}

\* requests that change the state of a responder that processes them, and
\* requests it answers
AddressRequests ==
    {Req(dst, 1, 0, DiscoveryCommand, pid, << >>) :
        dst \in AddressDestinations, pid \in {DISC_MUTE, DISC_UN_MUTE}}
    \cup {Req(dst, 1, 0, DiscoveryCommand, DISC_UNIQUE_BRANCH, BranchAll) :
        dst \in AddressDestinations}
    \cup {Req(dst, 1, 0, SetCommand, DMX_START_ADDRESS, << 0, 5 >>) :
        dst \in AddressDestinations}
    \cup {Req(dst, 1, 0, GetCommand, pid, << >>) :
        dst \in AddressDestinations, pid \in {DMX_START_ADDRESS, DEVICE_INFO}}

AddressHandlerRequests ==
    {Req(dst, 1, 0, SetCommand, IDENTIFY_DEVICE, << 1 >>) : dst \in AddressDestinations}

AddressHandlerResults == {hr \in HandlerResults : hr.kind \in {"Acknowledged", "NoResponse"}}

PollAddressed ==
    \E request \in AddressRequests :
        Poll(DriverEvent("frame", serialize_rdm_data(request), "ok"), DefaultHandler)

PollAddressedHandler ==
    \E request \in AddressHandlerRequests, hr \in AddressHandlerResults :
        Poll(DriverEvent("frame", serialize_rdm_data(request), "ok"), hr)

PackageAddressed ==
    \E request \in AddressRequests : HandleRdmRequest(request, DefaultHandler)

PackageAddressedHandler ==
    \E request \in AddressHandlerRequests, hr \in AddressHandlerResults :
        HandleRdmRequest(request, hr)

NextAddress ==
    \/ PollAddressed
    \/ PollAddressedHandler
    \/ PackageAddressed
    \/ PackageAddressedHandler

SpecAddress == Init /\ [][NextAddress]_vars

(***************************************************************************)
(* The controller: DmxController::rdm_request, dmx_controller.rs, over     *)
(* RdmControllerDriver::receive_rdm, dmx_driver.rs                         *)
(***************************************************************************)
\* the calls of rdm_request a run makes
MaxCalls == 3

\* TryFrom<u16> for NackReason
NackReasons == 0..10

\* RdmControllerDriver::receive_rdm: the first three bytes give the message
\* length, the rest of the frame is read up to it and deserialized
receive_rdm(ev) ==
    IF ev.kind = "timeout" THEN CodecErr("TimeoutError")
    ELSE IF ev.kind = "driver_error" THEN CodecErr("DriverError")
    ELSE LET message_length == (IF Len(ev.wire) >= 3 THEN ev.wire[3] ELSE 0) + 2
         IN  IF message_length < 3 THEN CodecErr("WrongMessageLength")
             ELSE IF message_length > RDM_MAX_PACKAGE_SIZE THEN CodecErr("WrongMessageLength")
             ELSE deserialize_rdm_data(Slice(ev.wire, 0, Min(Len(ev.wire), message_length)))

\* a loop that breaks on every response
TransactionMatchesAny(c, response) == TRUE

\* rdm_request: `self.current_transaction_id == response.transaction_number`
TransactionMatches(c, response) ==
    c.current_transaction_id = response.transaction_number

\* a match that takes an AckOverflow for a complete answer
ResponseOutcomeComplete(response) ==
    CASE response.response_type = ResponseTypeAckTimer ->
           IF Len(response.parameter_data) # 2 THEN "ErrorNotDeserializable" ELSE "NotReady"
      [] response.response_type = ResponseTypeNackReason ->
           IF Len(response.parameter_data) # 2 THEN "ErrorNotDeserializable"
           ELSE IF U16FromBytes(response.parameter_data) \notin NackReasons
           THEN "ErrorNotDeserializable"
           ELSE "NotAcknowledged"
      [] OTHER -> "Response"

\* rdm_request: `match response.response_type`
ResponseOutcome(response) ==
    CASE response.response_type = ResponseTypeAck -> "Response"
      [] response.response_type = ResponseTypeAckTimer ->
           IF Len(response.parameter_data) # 2 THEN "ErrorNotDeserializable" ELSE "NotReady"
      [] response.response_type = ResponseTypeNackReason ->
           IF Len(response.parameter_data) # 2 THEN "ErrorNotDeserializable"
           ELSE IF U16FromBytes(response.parameter_data) \notin NackReasons
           THEN "ErrorNotDeserializable"
           ELSE "NotAcknowledged"
      [] OTHER -> "IncompleteResponse"

\* what one turn of the receive loop came to: the controller, the call, the
\* packet received (None on an error) and the outcome of the turn
Turn(c, cl, received, outcome) ==
    [c |-> c, call |-> cl, received |-> received, outcome |-> outcome]

Returned(c, cl, received, result, data) ==
    Turn(c, Call("done", cl.destination_uid, result, data), received, result)

\* rdm_request: the delay of NotReady and the reason of NotAcknowledged,
\* `u16::from_be_bytes(response_info.data[..2])`
ResponseValue(response) ==
    IF ResponseOutcome(response) \in {"NotReady", "NotAcknowledged"}
    THEN U16FromBytes(response.parameter_data)
    ELSE 0

\* rdm_request: what it returns for a response it accepted
Accepted(c, cl, response) ==
    Turn(c, [Call("done", cl.destination_uid, ResponseOutcome(response),
                  response.parameter_data) EXCEPT !.value = ResponseValue(response)],
         response, ResponseOutcome(response))

\* a controller that takes the message count from an Ack only
record_message_count_of_ack(c, response) ==
    IF response.response_type = ResponseTypeAck
    THEN [c EXCEPT !.last_message_count = response.message_count]
    ELSE c

\* rdm_request: `self.last_message_count = response.message_count`
record_message_count(c, response) ==
    [c EXCEPT !.last_message_count = response.message_count]

\* rdm_request: one turn of its receive loop on the result r of receive_rdm,
\* and the code after the loop when the turn breaks out of it
Received(c, cl, r) ==
    IF r.panic THEN Turn(c, [cl EXCEPT !.pc = "panic"], NoneResp, "panic")
    ELSE IF ~r.ok THEN Returned(c, cl, NoneResp, "DmxError", << >>)
    ELSE IF r.data.type = "Request" THEN Returned(c, cl, r.data, "NotMatching", << >>)
    ELSE IF ~TransactionMatches(c, r.data) THEN Turn(c, cl, r.data, "discarded")
    ELSE IF r.data.destination_uid # Device(c.uid)
    THEN Returned(c, cl, r.data, "NotMatching", << >>)
    ELSE Accepted(record_message_count(c, r.data), cl, r.data)

\* rdm_request up to its receive loop
Sent(c, cl, package, sent) ==
    IF sent.result # "Ok"
    THEN [c |-> c, call |-> Call("done", package.destination_uid, "DmxError", << >>),
          package |-> package, sent |-> sent]
    ELSE IF is_broadcast(package.destination_uid)
    THEN [c |-> c, call |-> Call("done", package.destination_uid, "RequestWasBroadcast", << >>),
          package |-> package, sent |-> sent]
    ELSE [c |-> c, call |-> Call("reading", package.destination_uid, "", << >>),
          package |-> package, sent |-> sent]

SendRequest(c, cl, package, write) == Sent(c, cl, package, send_rdm(package, write))

rdm_request(c, cl, command_class, request, write) ==
    SendRequest([c EXCEPT !.current_transaction_id = (@ + 1) % 256], cl,
                RequestData(request.destination_uid, c.uid,
                            (c.current_transaction_id + 1) % 256, 0, 0, 0,
                            command_class, request.parameter_id, request.data),
                write)

\* struct RdmRequest
RdmRequest(dst, pid, data) == [destination_uid |-> dst, parameter_id |-> pid, data |-> data]

\* the requests of the host
ControllerRequests ==
    {RdmRequest(dst, pid, << >>) :
        dst \in {Device(ResponderUid), Broadcast, ManufacturerBroadcast(1)},
        pid \in {IDENTIFY_DEVICE, DISC_MUTE}}

\* a frame with its message_count byte set and its checksum made to fit
WithMessageCount(frame, mc) ==
    LET body == [i \in 1..(Len(frame) - 2) |-> IF i = 18 THEN mc ELSE frame[i]]
    IN  body \o U16Bytes(calculate_checksum(body))

\* the responses on the bus while the controller waits for transaction tn:
\* of this transaction and of the one before, to the controller and to another
ResponseWires(tn) ==
    {WithMessageCount(
        serialize_rdm_data(ResponseData(Device(dst), ResponderUid, t, rt, 0, 0,
                                        GetCommandResponse, IDENTIFY_DEVICE, data)), mc) :
        dst \in {ControllerUid, OtherUid}, t \in {tn, (tn + 255) % 256},
        rt \in ResponseTypes,
        data \in {<< >>, << 0, 5 >>, << 0, 77 >>, << 1, 2 >>, << 0, 5, 0 >>}, mc \in {0, 3}}

ControllerEvents(tn) ==
    {DriverEvent("frame", w, "ok") :
        w \in ResponseWires(tn) \cup {DeviceInfoFrame, ShortFrame, << SC_RDM, SC_SUB_MESSAGE, 0 >>}}
    \cup {DriverEvent("timeout", << >>, "ok"), DriverEvent("driver_error", << >>, "ok")}

(***************************************************************************)
(* Actions of the controller                                               *)
(***************************************************************************)
RequestSent(out) ==
    /\ controller' = out.c
    /\ call' = out.call
    /\ last' = Last("rdm_request", << >>, out.package, DefaultHandler, NoneResp,
                    out.sent.written, FALSE, out.call.result)
    /\ UNCHANGED << responder, package_handler, panicked, discovery, line >>

\* the host calls rdm_get, rdm_set or a discovery request
RdmRequestCall(command_class, request, write) ==
    /\ call.pc \in {"idle", "done"}
    /\ controller.current_transaction_id < MaxCalls
    /\ RequestSent(rdm_request(controller, call, command_class, request, write))

TurnDone(out, ev) ==
    /\ controller' = out.c
    /\ call' = out.call
    /\ last' = Last("receive_rdm", ev.wire, NoReq, DefaultHandler, out.received,
                    << >>, FALSE, out.outcome)
    /\ UNCHANGED << responder, package_handler, panicked, discovery, line >>

\* one turn of the receive loop of rdm_request
ReceiveRdm(ev) ==
    /\ call.pc = "reading"
    /\ TurnDone(Received(controller, call, receive_rdm(ev)), ev)

ControllerCalls ==
    \E command_class \in RequestCommandClasses, request \in ControllerRequests,
       write \in {"ok", "short", "error"} :
        RdmRequestCall(command_class, request, write)

ControllerReceives ==
    \E ev \in ControllerEvents(controller.current_transaction_id) : ReceiveRdm(ev)

NextController == ControllerCalls \/ ControllerReceives

SpecController == Init /\ [][NextController]_vars

(***************************************************************************)
(* Discovery: run_full_discovery and discover_range, utils.rs, on an ideal *)
(* bus.  A u64 bound is a pair of 24-bit halves, hi * 2^24 + lo.           *)
(***************************************************************************)
Half == 256 * 256 * 256

U48(hi, lo) == [hi |-> hi, lo |-> lo]

\* From<UniqueIdentifier> for u64
U48FromUid(u) ==
    LET b == UidToBytes(u)
    IN  U48(b[1] * 65536 + b[2] * 256 + b[3], b[4] * 65536 + b[5] * 256 + b[6])

U48Leq(a, b) == a.hi < b.hi \/ (a.hi = b.hi /\ a.lo <= b.lo)

U48Succ(a) == IF a.lo = Half - 1 THEN U48(a.hi + 1, 0) ELSE U48(a.hi, a.lo + 1)

\* a middle that is rounded up
U48MidRoundedUp(lower_bound, upper_bound) ==
    LET sum_lo == lower_bound.lo + upper_bound.lo + 1
        sum_hi == lower_bound.hi + upper_bound.hi + (sum_lo \div Half)
    IN  U48(sum_hi \div 2, ((sum_hi % 2) * Half + (sum_lo % Half)) \div 2)

\* (upper_bound + lower_bound) / 2
U48Mid(lower_bound, upper_bound) ==
    LET sum_lo == lower_bound.lo + upper_bound.lo
        sum_hi == lower_bound.hi + upper_bound.hi + (sum_lo \div Half)
    IN  U48(sum_hi \div 2, ((sum_hi % 2) * Half + (sum_lo % Half)) \div 2)

\* upper_bound - lower_bound <= 1, for lower_bound <= upper_bound
WidthAtMostOne(lower_bound, upper_bound) == U48Leq(upper_bound, U48Succ(lower_bound))

\* enum DiscoveryOption
NoDevice == [kind |-> "NoDevice", uid |-> U48(0, 0)]
Collision == [kind |-> "Collision", uid |-> U48(0, 0)]
Found(uid) == [kind |-> "Found", uid |-> uid]

\* the empty slot of a uid_array
NoSlot == U48(0, 0)

\* the bus: the responders on it and the ones that are muted
Bus(devices, muted) == [devices |-> devices, muted |-> muted]

\* rdm_discover on the ideal bus: the responders that answer the probe are the
\* unmuted ones in the range; none is a timeout, two or more garble the reply
rdm_discover(bus, first_uid, last_uid) ==
    LET answering == {u \in bus.devices \ bus.muted : U48Leq(first_uid, u) /\ U48Leq(u, last_uid)}
    IN  IF answering = {} THEN NoDevice
        ELSE IF Cardinality(answering) = 1 THEN Found(CHOOSE u \in answering : TRUE)
        ELSE Collision

\* rdm_disc_mute on the ideal bus: the responder mutes and acknowledges
rdm_disc_mute(bus, uid) == Bus(bus.devices, bus.muted \cup {uid})

\* a call of discover_range in progress: its bounds, the start of its slice
\* of uid_array (every slice runs to the end of the array), where it stands
\* ("probe", or waiting for its "upper" or its "lower" half) and
\* upper_addresses_found
Frame(lower_bound, upper_bound, offset, pc, upper_addresses_found) ==
    [lower_bound |-> lower_bound, upper_bound |-> upper_bound, offset |-> offset,
     pc |-> pc, upper_addresses_found |-> upper_addresses_found]

\* no call of discover_range has returned to its caller yet
NoReturn == 0 - 1

\* the most responders on the bus, and the most slots of a uid_array
MaxDevices == 3

\* uids of responders: low ones, neighbours, and the two around the middle of
\* the uid range
BusUids ==
    {U48(0, 1), U48(0, 2), U48(0, 3), U48(0, 6),
     U48FromUid(ResponderUid), U48FromUid(OtherUid),
     U48(Half \div 2 - 1, Half - 1), U48(Half \div 2, 0)}

Buses == {S \in SUBSET BusUids : Cardinality(S) <= MaxDevices}

InitBus ==
    /\ InitResponder
    /\ InitController
    /\ \E S \in Buses, slots \in 0..MaxDevices :
          discovery = [pc |-> "idle", devices |-> S, muted |-> {},
                       uid_array |-> [i \in 1..slots |-> NoSlot], found |-> 0,
                       stack |-> << >>, returned |-> NoReturn]

DiscoveryStep(d) ==
    /\ discovery' = d
    /\ UNCHANGED << responder, package_handler, panicked, last, controller, call, line >>

\* the top call returns Ok(n) to its caller
Return(d, n) ==
    [d EXCEPT !.stack = SubSeq(@, 1, Len(@) - 1), !.returned = n]

\* the top call calls discover_range on a half
CallHalf(d, pc, upper_addresses_found, lower_bound, upper_bound, offset) ==
    [d EXCEPT !.stack = [@ EXCEPT ![Len(@)].pc = pc,
                                  ![Len(@)].upper_addresses_found = upper_addresses_found]
                        \o << Frame(lower_bound, upper_bound, offset, "probe", 0) >>,
              !.returned = NoReturn]

\* discover_range from its probe to the end of its match, or to the call of
\* its upper half
Probed(d, frame, discovery_option) ==
    IF frame.offset >= Len(d.uid_array) THEN Return(d, 0)
    ELSE CASE discovery_option.kind = "Collision" ->
                IF WidthAtMostOne(frame.lower_bound, frame.upper_bound)
                THEN Return(d, 0)
                ELSE CallHalf(d, "upper", 0,
                              U48Succ(U48Mid(frame.lower_bound, frame.upper_bound)),
                              frame.upper_bound, frame.offset)
           [] discovery_option.kind = "NoDevice" -> Return(d, 0)
           [] OTHER ->
                Return([d EXCEPT
                           !.muted = rdm_disc_mute(Bus(d.devices, d.muted),
                                                   discovery_option.uid).muted,
                           !.uid_array[frame.offset + 1] = discovery_option.uid], 1)

\* the host calls run_full_discovery, which calls discover_range on the range
\* 0x000000000001 .. 0xFFFFFFFFFFFE
RunFullDiscovery ==
    /\ discovery.pc = "idle"
    /\ DiscoveryStep([discovery EXCEPT
           !.pc = "running", !.found = 0, !.returned = NoReturn,
           !.stack = << Frame(U48(0, 1), U48(Half - 1, Half - 2), 0, "probe", 0) >>])

\* discover_range probes its range
DiscoverRange ==
    /\ discovery.pc = "running"
    /\ Len(discovery.stack) > 0
    /\ discovery.stack[Len(discovery.stack)].pc = "probe"
    /\ DiscoveryStep(
           Probed(discovery, discovery.stack[Len(discovery.stack)],
                  rdm_discover(Bus(discovery.devices, discovery.muted),
                               discovery.stack[Len(discovery.stack)].lower_bound,
                               discovery.stack[Len(discovery.stack)].upper_bound)))

\* discover_range has the count of its upper half and calls its lower half on
\* uid_array[upper_addresses_found..]
DiscoverLowerHalf ==
    /\ discovery.pc = "running"
    /\ Len(discovery.stack) > 0
    /\ discovery.stack[Len(discovery.stack)].pc = "upper"
    /\ discovery.returned # NoReturn
    /\ DiscoveryStep(
           CallHalf(discovery, "lower", discovery.returned,
                    discovery.stack[Len(discovery.stack)].lower_bound,
                    U48Mid(discovery.stack[Len(discovery.stack)].lower_bound,
                           discovery.stack[Len(discovery.stack)].upper_bound),
                    discovery.stack[Len(discovery.stack)].offset + discovery.returned))

\* discover_range has the counts of its two halves and returns their sum
DiscoverBothHalves ==
    /\ discovery.pc = "running"
    /\ Len(discovery.stack) > 0
    /\ discovery.stack[Len(discovery.stack)].pc = "lower"
    /\ discovery.returned # NoReturn
    /\ DiscoveryStep(
           Return(discovery,
                  discovery.stack[Len(discovery.stack)].upper_addresses_found
                  + discovery.returned))

\* run_full_discovery returns Ok(addresses_found)
FullDiscoveryReturns ==
    /\ discovery.pc = "running"
    /\ Len(discovery.stack) = 0
    /\ DiscoveryStep([discovery EXCEPT !.pc = "done", !.found = discovery.returned,
                                       !.returned = NoReturn])

\* the host unmutes every responder with a DISC_UN_MUTE broadcast, as it should
\* before a run
UnMuteAll ==
    /\ discovery.pc = "done"
    /\ DiscoveryStep([discovery EXCEPT !.pc = "idle", !.muted = {}, !.found = 0])

NextDiscovery ==
    \/ RunFullDiscovery
    \/ DiscoverRange
    \/ DiscoverLowerHalf
    \/ DiscoverBothHalves
    \/ FullDiscoveryReturns
    \/ UnMuteAll

SpecDiscovery == InitBus /\ [][NextDiscovery]_vars

(***************************************************************************)
(* Properties of poll and handle_rdm_request                               *)
(***************************************************************************)
\* C1: RdmResponder::poll returns for every frame the driver delivers: no
\* poll ends in a panic.
C1_PollNeverPanics == last.op = "poll" => last.result # "panic"

\* C2 (a consequence of it): a request whose destination is Broadcast or
\* ManufacturerBroadcast is never answered with an RDM response, whatever the
\* handler returned.
C2_BroadcastGetsNoResponse ==
    (last.op = "handle_rdm_request" /\ is_broadcast(last.request.destination_uid))
        => last.result # "Response"

\* a poll decoded a discovery command `pid` with an empty payload that passed
\* the address filter of the responder in state s
AcceptedDiscovery(l, s, pid) ==
    /\ l.op = "poll"
    /\ l.request.type = "Request"
    /\ AddressedToMe(s, l.request)
    /\ l.request.command_class = DiscoveryCommand
    /\ l.request.parameter_id = pid
    /\ Len(l.request.parameter_data) = 0

\* a poll decoded a DISC_UNIQUE_BRANCH whose range holds the uid of s
MatchingBranch(l, s) ==
    /\ l.op = "poll"
    /\ l.request.type = "Request"
    /\ AddressedToMe(s, l.request)
    /\ l.request.command_class = DiscoveryCommand
    /\ l.request.parameter_id = DISC_UNIQUE_BRANCH
    /\ Len(l.request.parameter_data) = 12
    /\ InBranch([s EXCEPT !.discovery_muted = FALSE], l.request)

\* a step of the model that agrees with C3, as stated below
C3_MuteStep ==
    /\ AcceptedDiscovery(last', responder, DISC_MUTE) => responder'.discovery_muted
    /\ AcceptedDiscovery(last', responder, DISC_UN_MUTE) => ~responder'.discovery_muted
    /\ (responder.discovery_muted /\ last'.ctx = "keep"
        /\ ~AcceptedDiscovery(last', responder, DISC_UN_MUTE))
           => (responder'.discovery_muted /\ ~last'.disc)
    /\ (~responder.discovery_muted /\ last'.ctx = "keep"
        /\ ~AcceptedDiscovery(last', responder, DISC_MUTE))
           => ~responder'.discovery_muted
    /\ (~responder.discovery_muted /\ MatchingBranch(last', responder))
           => (last'.disc \/ last'.result = "DriverError")

\* C3: an accepted DISC_MUTE mutes the responder; while muted it sends no
\* discovery response and stays muted until it accepts a DISC_UN_MUTE (the
\* handler not writing discovery_muted); an accepted DISC_UN_MUTE unmutes it,
\* and an unmuted responder answers every matching DISC_UNIQUE_BRANCH the
\* driver lets it write and stays unmuted until it accepts a DISC_MUTE.
C3_MuteUntilUnmute == [][C3_MuteStep]_vars

\* a muted responder has just stayed silent on a DISC_UNIQUE_BRANCH whose
\* range holds its uid
C3_Witness ==
    /\ responder.discovery_muted
    /\ MatchingBranch(last, responder)
    /\ ~last.disc
    /\ last.written = << >>

(***************************************************************************)
(* Properties of the queued messages and the status messages               *)
(***************************************************************************)
\* a poll decoded a GET of `pid` to the responder's own uid, sub device 0,
\* asking for the statuses of type Advisory, Warning or Error
DrainRequest(l, s, pid) ==
    /\ l.op = "poll"
    /\ l.request.type = "Request"
    /\ l.request.destination_uid = Device(s.uid)
    /\ l.request.command_class = GetCommand
    /\ l.request.sub_device = 0
    /\ l.request.parameter_id = pid
    /\ l.request.parameter_data \in {<< StatusAdvisory >>, << StatusWarning >>, << StatusError >>}

\* a step of the model that agrees with C4, as stated below
C4_OldestStep ==
    (DrainRequest(last', responder, QUEUED_MESSAGE) /\ Len(responder.message_queue) > 0)
        => last'.response =
              [responder.message_queue[1] EXCEPT
                  !.message_count = Len(responder'.message_queue),
                  !.transaction_number = last'.request.transaction_number]

\* C4: while message_queue holds messages, a GET QUEUED_MESSAGE delivers the
\* oldest of them (the front of the deque the host appends to), with
\* message_count and transaction_number rewritten.
C4_OldestFirst == [][C4_OldestStep]_vars

\* the entries of a status_vec below the filter, in their order
RECURSIVE BelowFilter(_, _)
BelowFilter(vec, status_filter) ==
    IF Len(vec) = 0 THEN << >>
    ELSE IF (vec[1].status_type % 16) < status_filter
         THEN << vec[1] >> \o BelowFilter(Tail(vec), status_filter)
         ELSE BelowFilter(Tail(vec), status_filter)

\* a status drain: GET STATUS_MESSAGES, or GET QUEUED_MESSAGE with an empty
\* message_queue, that returned
StatusDrain(l, s) ==
    /\ \/ DrainRequest(l, s, STATUS_MESSAGES)
       \/ DrainRequest(l, s, QUEUED_MESSAGE) /\ Len(s.message_queue) = 0
    /\ l.result # "panic"

\* a step of the model that agrees with C5, as stated below
C5_RemainderStep ==
    StatusDrain(last', responder)
        => responder'.status_vec =
              BelowFilter(responder.status_vec, last'.request.parameter_data[1])

\* C5: a status drain with filter F that returns leaves in status_vec exactly
\* the entries whose (status_type & 0x0F) < F, in their original order.
C5_RemainderBelowFilter == [][C5_RemainderStep]_vars

\* C6: with more than one page of pids, a GET SUPPORTED_PARAMETERS to the
\* responder is answered, with AckOverflow or with Ack.
C6_LongListAnswered ==
    (/\ last.op = "poll"
     /\ last.request.type = "Request"
     /\ last.request.destination_uid = Device(responder.uid)
     /\ last.request.command_class = GetCommand
     /\ last.request.sub_device = 0
     /\ last.request.parameter_id = SUPPORTED_PARAMETERS
     /\ Len(responder.supported_pids) + Len(INTERNALLY_SUPPORTED_PIDS) > MAX_PIDS_PER_RESPONSE)
        => (/\ last.response.type = "Response"
            /\ last.response.response_type \in {ResponseTypeAckOverflow, ResponseTypeAck})

\* the poll answered with a response the engine built itself
EngineBuilt(l) ==
    /\ l.op = "poll"
    /\ l.request.type = "Request"
    /\ l.response.type = "Response"
    /\ ~(l.handler = "Custom" /\ l.request.parameter_id = IDENTIFY_DEVICE)

\* the sub_device of a reply to QUEUED_MESSAGE that delivers a message of the
\* queue of s or replays the last one delivered
QueuedSubDevices(s) ==
    {s.message_queue[i].sub_device : i \in 1..Len(s.message_queue)}
    \cup (IF s.last_queued_message.type = "Response"
          THEN {s.last_queued_message.sub_device} ELSE {})

\* a step of the model that agrees with C9, as stated below
C9_EchoStep ==
    EngineBuilt(last')
        => /\ last'.response.transaction_number = last'.request.transaction_number
           /\ \/ last'.response.sub_device = last'.request.sub_device
              \/ /\ last'.request.parameter_id = QUEUED_MESSAGE
                 /\ last'.response.sub_device \in QueuedSubDevices(responder)

\* C9 (amended): every response the engine builds carries the
\* transaction_number of the request; it carries the sub_device of the request
\* unless it is a reply to QUEUED_MESSAGE that delivers a queued or replayed
\* message, which keeps the sub_device it was queued with.
C9_EchoesTransaction == [][C9_EchoStep]_vars

\* C9 as stated: the response carries the transaction_number and the
\* sub_device of the request.
C9_EchoesSubDevice ==
    EngineBuilt(last)
        => /\ last.response.transaction_number = last.request.transaction_number
           /\ last.response.sub_device = last.request.sub_device

\* a queued message of sub device 5, queued with transaction number 9, was
\* delivered to a request of sub device 0 under the request's transaction number
C9_Witness ==
    /\ EngineBuilt(last)
    /\ last.request.parameter_id = QUEUED_MESSAGE
    /\ last.response.parameter_id = DMX_START_ADDRESS
    /\ last.response.sub_device = 5
    /\ last.request.sub_device = 0
    /\ last.response.transaction_number = last.request.transaction_number
    /\ last.request.transaction_number = 2

\* C10: the response written to the bus carries, in its message_count byte,
\* the number of entries of message_queue at that moment.
C10_CountOnTheBus ==
    (EngineBuilt(last) /\ last.result = "Ok(true)")
        => last.written[18] = Len(responder.message_queue)

(***************************************************************************)
(* Properties of the controller                                            *)
(***************************************************************************)
\* a step of the model that agrees with C8, as stated below
C8_TurnStep ==
    (call.pc = "reading" /\ last'.op = "receive_rdm")
        => /\ (/\ last'.response.type = "Response"
               /\ last'.response.transaction_number # controller.current_transaction_id)
                  => (controller' = controller /\ call' = call)
           /\ call'.pc = "done"
                  => \/ /\ last'.response.type = "Response"
                        /\ last'.response.transaction_number = controller.current_transaction_id
                     \/ last'.response.type = "Request" /\ call'.result = "NotMatching"
                     \/ last'.response.type = "None" /\ call'.result = "DmxError"

\* C8: in the receive loop of a non-broadcast rdm_request, a Response whose
\* transaction_number differs from current_transaction_id changes nothing and
\* the call keeps reading; the call returns only on a Response with the
\* matching transaction number, on a Request (NotMatching), or on an error or
\* timeout of the driver.
C8_StaleResponsesDropped == [][C8_TurnStep]_vars

\* a response of the transaction before was received and dropped, and the call
\* is still reading
C8_Witness ==
    /\ call.pc = "reading"
    /\ last.op = "receive_rdm"
    /\ last.result = "discarded"
    /\ last.response.type = "Response"
    /\ last.response.destination_uid = Device(controller.uid)
    /\ last.response.transaction_number # controller.current_transaction_id

(***************************************************************************)
(* Properties of discovery                                                 *)
(***************************************************************************)
\* C7: with at least as many slots as responders, run_full_discovery returns
\* the number of responders, the first slots of uid_array hold exactly their
\* uids, and every responder ends muted.
C7_FindsAll ==
    (discovery.pc = "done" /\ Len(discovery.uid_array) >= Cardinality(discovery.devices))
        => /\ discovery.found = Cardinality(discovery.devices)
           /\ {discovery.uid_array[i] : i \in 1..discovery.found} = discovery.devices
           /\ discovery.muted = discovery.devices

(***************************************************************************)
(* The responder under DMX_START_ADDRESS requests                          *)
(***************************************************************************)
\* payloads of SET DMX_START_ADDRESS: of 0, 1 and 3 bytes, and the 2-byte
\* values 0, 1, 5, 512, 513, 0xFFFE and 0xFFFF
StartPayloads ==
    {<< >>, << 5 >>, << 0, 0, 5 >>, << 0, 0 >>, << 0, 1 >>, << 0, 5 >>, << 2, 0 >>, << 2, 1 >>,
     << 255, 254 >>, << 255, 255 >>}

StartRequests ==
    {Req(dst, tn, 0, SetCommand, DMX_START_ADDRESS, data) :
        dst \in {Device(ResponderUid), Broadcast}, tn \in {1, 2}, data \in StartPayloads}
    \cup {Req(Device(ResponderUid), tn, 0, cc, DMX_START_ADDRESS, << >>) :
        tn \in {1, 2}, cc \in {GetCommand, DiscoveryCommand}}

PollStart ==
    \E request \in StartRequests :
        Poll(DriverEvent("frame", serialize_rdm_data(request), "ok"), DefaultHandler)

NextStart == PollStart

SpecStart == Init /\ [][NextStart]_vars

(***************************************************************************)
(* The responder under STATUS_MESSAGES requests with payloads of every     *)
(* shape, with a host that reports statuses                                *)
(***************************************************************************)
\* payloads that are no single byte, and single bytes that no StatusType has
StatusPayloads == {<< >>, << 0, 0 >>, << 2, 2 >>, << 5 >>, << 17 >>, << 255 >>}

PollStatusPayload ==
    \E data \in StatusPayloads, tn \in {1, 2} :
        Poll(DriverEvent("frame",
                         serialize_rdm_data(Req(Device(ResponderUid), tn, 0, GetCommand,
                                                STATUS_MESSAGES, data)),
                         "ok"),
             DefaultHandler)

NextStatusType == HostReports \/ PollStatus \/ PollStatusPayload

SpecStatusType == Init /\ [][NextStatusType]_vars

(***************************************************************************)
(* The responder under QUEUED_MESSAGE requests, with a host that queues    *)
(* messages                                                                *)
(***************************************************************************)
\* drains, replays and requests that are neither, numbered 1 and 2
ReplayRequests ==
    {Req(Device(ResponderUid), tn, 0, GetCommand, QUEUED_MESSAGE, data) :
        tn \in {1, 2},
        data \in {<< StatusError >>, << StatusAdvisory >>, << StatusWarning >>,
                  << StatusGetLastMessage >>, << StatusNone >>, << >>}}
    \cup {Req(Device(ResponderUid), 1, 1, GetCommand, QUEUED_MESSAGE, << StatusError >>),
          Req(Device(ResponderUid), 1, 0, SetCommand, QUEUED_MESSAGE, << StatusError >>),
          Req(Broadcast, 1, 0, GetCommand, QUEUED_MESSAGE, << StatusError >>),
          Req(Device(ResponderUid), 1, 0, GetCommand, STATUS_MESSAGES, << StatusError >>),
          Req(Device(ResponderUid), 1, 0, GetCommand, STATUS_MESSAGES, << StatusGetLastMessage >>),
          Req(Device(ResponderUid), 1, 0, GetCommand, DEVICE_INFO, << >>)}

PollReplay ==
    \E request \in ReplayRequests :
        Poll(DriverEvent("frame", serialize_rdm_data(request), "ok"), DefaultHandler)

NextReplay == HostQueues \/ PollReplay

SpecReplay == Init /\ [][NextReplay]_vars

(***************************************************************************)
(* The discovery probe of the controller: DmxController::rdm_discover and  *)
(* the driver's receive_rdm_discovery_response                             *)
(***************************************************************************)
RDM_DISCOVERY_RESPONSE_SIZE == 16

\* the receive_buffer of receive_rdm_discovery_response
DiscoveryBufferSize == 32

\* a & b on unsigned integers
RECURSIVE BitAnd(_, _)
BitAnd(a, b) ==
    IF a = 0 \/ b = 0 THEN 0
    ELSE (a % 2) * (b % 2) + 2 * BitAnd(a \div 2, b \div 2)

\* decode_disc_unique: every pair of bytes of src gives chunk[0] & chunk[1]
decode_disc_unique(src) ==
    [index \in 1..(Len(src) \div 2) |-> BitAnd(src[2 * index - 1], src[2 * index])]

\* buffer.iter().position(|&x| x == SEPARATOR_BYTE), 0-based; -1 for None
PositionOfSeparator(buffer) ==
    IF \E i \in 1..Len(buffer) : buffer[i] = SEPARATOR_BYTE
    THEN (CHOOSE i \in 1..Len(buffer) :
             /\ buffer[i] = SEPARATOR_BYTE
             /\ \A j \in 1..(i - 1) : buffer[j] # SEPARATOR_BYTE) - 1
    ELSE 0 - 1

\* deserialize_discovery_response once the separator is found
DecodeAfterSeparator(buffer, start_index) ==
    LET message_length == Len(buffer) - start_index
    IN  IF message_length < RDM_DISCOVERY_RESPONSE_SIZE THEN CodecErr("WrongMessageLength")
        ELSE LET calculated_checksum ==
                     calculate_checksum(Slice(buffer, start_index, start_index + 12))
                 address ==
                     AddrFromBytes(decode_disc_unique(Slice(buffer, start_index,
                                                            start_index + 12)))
                 received_checksum ==
                     U16FromBytes(decode_disc_unique(Slice(buffer, start_index + 12,
                                                           start_index + 16)))
             IN  IF address.kind # "Device" THEN CodecErr("SourceUidIsBroadcast")
                 ELSE IF calculated_checksum # received_checksum
                 THEN CodecErr("WrongChecksum")
                 ELSE CodecOk(address.uid)

\* deserialize_discovery_response
deserialize_discovery_response(buffer) ==
    IF PositionOfSeparator(buffer) < 0 THEN CodecErr("WrongStartCode")
    ELSE DecodeAfterSeparator(buffer, PositionOfSeparator(buffer) + 1)

\* Result<DiscoveryOption, DmxError>: result is "Ok" or the name of the error
DiscoveryResult(result, option) == [result |-> result, option |-> option]

\* `.map_or(DiscoveryOption::Collision, DiscoveryOption::Found)`
FoundOrCollision(decoded) ==
    IF decoded.ok THEN DiscoveryResult("Ok", Found(decoded.data))
    ELSE DiscoveryResult("Ok", Collision)

\* RdmControllerDriver::receive_rdm_discovery_response
receive_rdm_discovery_response(ev) ==
    IF ev.kind = "timeout" THEN DiscoveryResult("Ok", NoDevice)
    ELSE IF ev.kind = "driver_error" THEN DiscoveryResult("DriverError", NoneResp)
    ELSE IF Min(Len(ev.wire), DiscoveryBufferSize) < RDM_DISCOVERY_RESPONSE_SIZE
    THEN DiscoveryResult("DeserializationError", NoneResp)
    ELSE FoundOrCollision(deserialize_discovery_response(
             Slice(ev.wire, 0, Min(Len(ev.wire), DiscoveryBufferSize))))

\* DmxController::rdm_discover after send_rdm
Discovered(request, sent, ev) ==
    IF sent.result # "Ok"
    THEN [request |-> request, sent |-> sent, out |-> DiscoveryResult(sent.result, NoneResp)]
    ELSE [request |-> request, sent |-> sent, out |-> receive_rdm_discovery_response(ev)]

\* DmxController::rdm_discover on the driver: the probe goes out as a broadcast
\* with the current transaction id, and the driver reads the answer
rdm_discover_probe(c, first_uid, last_uid, ev) ==
    Discovered(RequestData(Broadcast, c.uid, c.current_transaction_id, 0, 0, 0,
                           DiscoveryCommand, DISC_UNIQUE_BRANCH, first_uid \o last_uid),
               send_rdm(RequestData(Broadcast, c.uid, c.current_transaction_id, 0, 0, 0,
                                    DiscoveryCommand, DISC_UNIQUE_BRANCH,
                                    first_uid \o last_uid), ev.write),
               ev)

\* a | b on bytes
BitOr(a, b) == a + b - BitAnd(a, b)

\* the two bytes that carry b on the bus, one per bit lane (ANSI E1.20)
Lanes(bytes) ==
    [i \in 1..(2 * Len(bytes)) |->
        IF i % 2 = 1 THEN BitOr(bytes[(i + 1) \div 2], 170) ELSE BitOr(bytes[i \div 2], 85)]

\* a well-formed discovery response of a device, with `preamble` preamble bytes
ResponseOf(uid_bytes, preamble) ==
    [i \in 1..preamble |-> PREAMBLE_BYTE] \o << SEPARATOR_BYTE >> \o Lanes(uid_bytes)
        \o Lanes(U16Bytes(calculate_checksum(Lanes(uid_bytes))))

\* two responders answering at once: the bus carries the bytes of both
Garbled(a, b) == [i \in 1..Len(a) |-> BitAnd(a[i], b[i])]

\* what the driver may read after a probe: responses with 0..7 preamble bytes,
\* every prefix of a response, a response with bytes after it, with a wrong
\* checksum, of a broadcast uid, without separator, and two responses at once
DiscoveryWires ==
    {ResponseOf(UidToBytes(u), n) : u \in {ResponderUid, OtherUid}, n \in {0, 1, 7}}
    \cup {Slice(ResponseOf(UidToBytes(ResponderUid), 7), 0, n) : n \in 1..24}
    \cup {Slice(ResponseOf(UidToBytes(ResponderUid), 0), 0, n) : n \in 1..17}
    \cup {ResponseOf(UidToBytes(ResponderUid), 7) \o [i \in 1..n |-> 0] : n \in {1, 8, 9}}
    \cup {[ResponseOf(UidToBytes(ResponderUid), 7) EXCEPT ![24] = 255],
          ResponseOf(<< 255, 255, 255, 255, 255, 255 >>, 7),
          ResponseOf(<< 0, 1, 255, 255, 255, 255 >>, 7),
          [i \in 1..24 |-> PREAMBLE_BYTE],
          Garbled(ResponseOf(UidToBytes(ResponderUid), 7), ResponseOf(UidToBytes(OtherUid), 7))}

DiscoveryEvents ==
    {DriverEvent("frame", w, write) : w \in DiscoveryWires, write \in {"ok"}}
    \cup {DriverEvent(kind, << >>, "ok") : kind \in {"timeout", "driver_error"}}
    \cup {DriverEvent("timeout", << >>, write) : write \in {"short", "error"}}

\* one call of DmxController::rdm_discover
ProbeDone(out, ev) ==
    /\ last' = Last("rdm_discover", ev.wire, out.request, DefaultHandler, out.out.option,
                    out.sent.written, FALSE, out.out.result)
    /\ UNCHANGED << responder, package_handler, panicked, controller, call, discovery, line >>

RdmDiscover(first_uid, last_uid, ev) ==
    /\ call.pc \in {"idle", "done"}
    /\ ProbeDone(rdm_discover_probe(controller, first_uid, last_uid, ev), ev)

\* the host probes a range and the driver reads what the bus carries
ProbeCalls ==
    \E range \in {BranchAll, BranchNone, UidToBytes(ResponderUid) \o UidToBytes(ResponderUid)},
       ev \in DiscoveryEvents :
        RdmDiscover(Slice(range, 0, 6), Slice(range, 6, 12), ev)

NextProbe == ProbeCalls

SpecProbe == Init /\ [][NextProbe]_vars

(***************************************************************************)
(* Construction of addresses: unique_identifier.rs.  A u64 argument is its *)
(* 8 big-endian bytes.                                                     *)
(***************************************************************************)
\* a 48-bit value as a u64
Widen(value) == << 0, 0 >> \o value

\* UniqueIdentifier::new
UniqueIdentifierNew(manufacturer_uid, device_uid) ==
    IF device_uid = U32_MAX \/ manufacturer_uid = U16_MAX
    THEN CodecErr("DeserializationError")
    ELSE CodecOk(Uid(manufacturer_uid, device_uid))

\* UniqueIdentifier::set_manufacturer_uid, as the identifier after the call
set_manufacturer_uid(uid, manufacturer_uid) ==
    IF manufacturer_uid = U16_MAX
    THEN CodecErr("DeserializationError")
    ELSE CodecOk([uid EXCEPT !.manufacturer_uid = manufacturer_uid])

\* UniqueIdentifier::set_device_uid, as the identifier after the call
set_device_uid(uid, device_uid) ==
    IF device_uid = U32_MAX
    THEN CodecErr("DeserializationError")
    ELSE CodecOk([uid EXCEPT !.device_uid = device_uid])

\* (value >> u32::BITS) as u16
ManufacturerBits(value) == U16FromBytes(SubSeq(value, 3, 4))

\* (value & u32::MAX as u64) as u32
DeviceBits(value) == SubSeq(value, 5, 8)

\* TryFrom<u64> for UniqueIdentifier: only the device id is tested
UniqueIdentifierTryFrom(value) ==
    IF DeviceBits(value) = U32_MAX
    THEN CodecErr("DeserializationError")
    ELSE CodecOk(Uid(ManufacturerBits(value), DeviceBits(value)))

\* value >> 6 > 0
ShiftedBySixIsPositive(value) == (\E i \in 1..7 : value[i] # 0) \/ value[8] >= 64

\* TryFrom<u64> for PackageAddress: the device branch returns the identifier 0:0
PackageAddressTryFrom(value) ==
    IF ShiftedBySixIsPositive(value) THEN CodecErr("DeserializationError")
    ELSE IF DeviceBits(value) = U32_MAX
         THEN IF ManufacturerBits(value) = U16_MAX
              THEN CodecOk(Broadcast)
              ELSE CodecOk(ManufacturerBroadcast(ManufacturerBits(value)))
    ELSE CodecOk(Device(Uid(0, << 0, 0, 0, 0 >>)))

(***************************************************************************)
(* Writing frames: dmx_driver.rs, and StatusMessage::deserialize           *)
(***************************************************************************)
\* what write_frames reports for a frame: all of its bytes, or one less
WrittenBytes(frame, write) == IF write = "short" THEN Len(frame) - 1 ELSE Len(frame)

\* CustomStartCodeControllerDriver::send_custom_package: the bytes put on the
\* bus and the result; the count of written bytes is compared with package.len()
send_custom_package(start_code, package, write) ==
    LET frame_buffer == << start_code >> \o package
    IN  IF Len(frame_buffer) > DMX_MAX_PACKAGE_SIZE
        THEN [written |-> << >>, result |-> "UartOverflow"]
        ELSE IF write = "error" THEN [written |-> << >>, result |-> "DriverError"]
        ELSE [written |-> Slice(frame_buffer, 0, WrittenBytes(frame_buffer, write)),
              result |-> IF WrittenBytes(frame_buffer, write) # Len(package)
                         THEN "UartOverflow" ELSE "Ok"]

\* DmxControllerDriver::send_dmx_package
send_dmx_package(package, write) == send_custom_package(DMX_NULL_START, package, write)

\* utils::encode_disc_unique: every byte b of src gives the two bytes
\* 0xAA | (b >> 1) and 0xAA | (b & 0x55)
encode_disc_unique(src) ==
    [i \in 1..(2 * Len(src)) |->
        IF i % 2 = 1 THEN BitOr(SEPARATOR_BYTE, src[(i + 1) \div 2] \div 2)
        ELSE BitOr(SEPARATOR_BYTE, BitAnd(src[i \div 2], 85))]

\* RdmResponderDriver::send_rdm_discovery_response: the 24 bytes of the frame
send_rdm_discovery_response(uid) ==
    LET encoded_uid == encode_disc_unique(UidToBytes(uid))
        checksum == calculate_checksum(encoded_uid)
    IN  [i \in 1..7 |-> PREAMBLE_BYTE] \o << SEPARATOR_BYTE >> \o encoded_uid
            \o encode_disc_unique(U16Bytes(checksum))

\* StatusMessage::deserialize
StatusMessageDeserialize(buffer) ==
    IF buffer[3] \notin KnownStatusTypes THEN CodecErr("DeserializationError")
    ELSE CodecOk(StatusMessage(U16FromBytes(Slice(buffer, 0, 2)), StatusTypeTryFrom(buffer[3]),
                               U16FromBytes(Slice(buffer, 3, 5)),
                               U16FromBytes(Slice(buffer, 5, 7)),
                               U16FromBytes(Slice(buffer, 7, 9))))

\* the fields of a StatusMessage in the order of their declaration
StatusFields(m) ==
    << m.sub_device_id, m.status_type, m.status_message_id, m.data_value_1, m.data_value_2 >>

(***************************************************************************)
(* The codecs on their own: a packet is serialized and deserialized, a     *)
(* serialized packet is damaged and deserialized                           *)
(***************************************************************************)
\* parameter data of n bytes
Payload(n) == [i \in 1..n |-> i % 256]

\* the lengths of parameter data: none, some, and the longest a packet can carry
PayloadLengths == {0, 2, RDM_MAX_PARAMETER_DATA_LENGTH}

CodecDestinations == {Device(ResponderUid), ManufacturerBroadcast(1), Broadcast}

\* an input of a codec: bytes, or a packet
CodecInput(op, wire, packet) ==
    Last(op, wire, packet, DefaultHandler, NoneResp, << >>, FALSE, "")

\* the valid packets of both kinds
InitPacket ==
    \E dst \in CodecDestinations, tn \in {0, 255}, mc \in {0, 3}, sub \in {0, 513},
       n \in PayloadLengths :
        \/ \E port_id \in {0, 255}, cc \in RequestCommandClasses :
              last = CodecInput("packet", << >>,
                                RequestData(dst, ControllerUid, tn, port_id, mc, sub, cc,
                                            IDENTIFY_DEVICE, Payload(n)))
        \/ \E rt \in ResponseTypes, cc \in ResponseCommandClasses :
              last = CodecInput("packet", << >>,
                                ResponseData(dst, ResponderUid, tn, rt, mc, sub, cc,
                                             IDENTIFY_DEVICE, Payload(n)))

\* the u64 values: with and without bits above the 48th, manufacturer ids
\* and device ids at and off their maxima, and values below 64
InitU64 ==
    \E high \in {0, 1}, manufacturer_uid \in {0, 1, U16_MAX},
       device_uid \in {<< 0, 0, 0, 0 >>, << 0, 0, 0, 2 >>, << 0, 1, 0, 0 >>, U32_MAX} :
        last = CodecInput("u64", << 0, high >> \o U16Bytes(manufacturer_uid) \o device_uid, NoReq)

\* the packages handed to send_dmx_package and send_custom_package: empty,
\* short, the longest that fits the frame buffer, and one too long for it
InitPackage ==
    \E n \in {0, 1, 3, DMX_MAX_PACKAGE_SIZE - 1, DMX_MAX_PACKAGE_SIZE} :
        last = CodecInput("package", Payload(n), NoReq)

\* the status messages, as their fields
InitStatusMessage ==
    \E st \in KnownStatusTypes, sub \in {0, 513}, id \in {1, 4660} :
        last = CodecInput("status_message", StatusFields(StatusMessage(sub, st, id, 2, 515)), NoReq)

\* the identifiers of devices, as their 6 bytes
InitUid ==
    \E manufacturer_uid \in {1, 2, 32752, 43690},
       device_uid \in {<< 0, 0, 0, 2 >>, << 18, 52, 86, 120 >>, << 170, 170, 170, 170 >>} :
        last = CodecInput("uid", U16Bytes(manufacturer_uid) \o device_uid, NoReq)

InitCodec ==
    /\ responder = NewResponder(ResponderUid, ConfiguredPids)
    /\ package_handler = NewResponder(ResponderUid, ConfiguredPids)
    /\ panicked = FALSE
    /\ InitController
    /\ InitDiscovery
    /\ (InitPacket \/ InitU64 \/ InitPackage \/ InitStatusMessage \/ InitUid)

\* the effect of a call of a codec that was given `given`, worked on the bytes
\* `wire` and came to `decoded`
CodecDone(op, wire, given, decoded) ==
    /\ last' = Last(op, wire, given, DefaultHandler,
                    IF decoded.ok THEN decoded.data ELSE NoneResp, << >>, FALSE,
                    IF decoded.ok THEN "Ok" ELSE decoded.err)
    /\ UNCHANGED << responder, package_handler, panicked, controller, call, discovery, line >>

\* RdmData::deserialize(&rdm_data.serialize())
RoundTrip ==
    /\ last.op = "packet"
    /\ CodecDone("round_trip", serialize_rdm_data(last.request), last.request,
                 deserialize_rdm_data(serialize_rdm_data(last.request)))

\* the bytes of frame with the one at position i (from 1) replaced by v
Replaced(frame, i, v) == [frame EXCEPT ![i] = v]

\* the positions of a serialized packet that get damaged: start code, sub start
\* code, message length, an address byte, transaction number, message count,
\* command class, parameter data length and the last byte before the checksum
DamagedPositions(frame) == {1, 2, 3, 4, 16, 18, 21, 24, Len(frame) - 2}

\* the values a damaged byte takes
DamagedValues(old) == {0, 255, (old + 1) % 256} \ {old}

\* a serialized packet is deserialized after one byte of it was changed
Damage ==
    /\ last.op = "packet"
    /\ \E i \in DamagedPositions(serialize_rdm_data(last.request)) :
         \E v \in DamagedValues(serialize_rdm_data(last.request)[i]) :
            CodecDone("damage", Replaced(serialize_rdm_data(last.request), i, v), last.request,
                      deserialize_rdm_data(Replaced(serialize_rdm_data(last.request), i, v)))

\* the effect of a call that was given the address `given` and the bytes `wire`
\* and came to the address or the identifier of `made`
AddressDone(op, wire, given, made) ==
    /\ last' = Last(op, wire, [NoReq EXCEPT !.destination_uid = given], DefaultHandler,
                    IF made.ok THEN [NoneResp EXCEPT !.destination_uid = made.data]
                    ELSE NoneResp, << >>, FALSE,
                    IF made.ok THEN "Ok" ELSE made.err)
    /\ UNCHANGED << responder, package_handler, panicked, controller, call, discovery, line >>

\* Result<UniqueIdentifier, _> as a Result<PackageAddress, _>
AsDevice(made) == IF made.ok THEN CodecOk(Device(made.data)) ELSE made

\* UniqueIdentifier::new(manufacturer_uid, device_uid)
UidNew ==
    /\ last.op = "u64"
    /\ AddressDone("new", last.wire, Broadcast,
                   AsDevice(UniqueIdentifierNew(ManufacturerBits(last.wire), DeviceBits(last.wire))))

\* uid.set_manufacturer_uid(manufacturer_uid) on the identifier of the responder
UidSetManufacturer ==
    /\ last.op = "u64"
    /\ AddressDone("set_manufacturer_uid", last.wire, Device(ResponderUid),
                   AsDevice(set_manufacturer_uid(ResponderUid, ManufacturerBits(last.wire))))

\* uid.set_device_uid(device_uid) on the identifier of the responder
UidSetDevice ==
    /\ last.op = "u64"
    /\ AddressDone("set_device_uid", last.wire, Device(ResponderUid),
                   AsDevice(set_device_uid(ResponderUid, DeviceBits(last.wire))))

\* UniqueIdentifier::try_from(value)
UidTryFrom ==
    /\ last.op = "u64"
    /\ AddressDone("uid_try_from", last.wire, Broadcast,
                   AsDevice(UniqueIdentifierTryFrom(last.wire)))

\* PackageAddress::from_bytes on the low 6 bytes
AddressFromBytes ==
    /\ last.op = "u64"
    /\ AddressDone("from_bytes", last.wire, Broadcast,
                   CodecOk(AddrFromBytes(SubSeq(last.wire, 3, 8))))

\* UniqueIdentifier::try_from(u64::from(u)) for a valid identifier u
UidRoundTrip ==
    /\ last.op = "u64"
    /\ UniqueIdentifierNew(ManufacturerBits(last.wire), DeviceBits(last.wire)).ok
    /\ LET u == UniqueIdentifierNew(ManufacturerBits(last.wire), DeviceBits(last.wire)).data
       IN  AddressDone("uid_round_trip", Widen(UidToU64(u)), Device(u),
                       AsDevice(UniqueIdentifierTryFrom(Widen(UidToU64(u)))))

\* PackageAddress::try_from(u64::from(a)) for an address a
AddressRoundTrip ==
    /\ last.op = "u64"
    /\ LET a == AddrFromBytes(SubSeq(last.wire, 3, 8))
       IN  AddressDone("address_round_trip", Widen(AddrToU64(a)), a,
                       PackageAddressTryFrom(Widen(AddrToU64(a))))

\* PackageAddress::try_from(value)
AddressTryFrom ==
    /\ last.op = "u64"
    /\ AddressDone("address_try_from", last.wire, Broadcast, PackageAddressTryFrom(last.wire))

\* the effect of a write through the driver layer: the frame handed to the
\* UART, the bytes it wrote and the result of the call
SendDone(op, frame, sent) ==
    /\ last' = Last(op, frame, last.request, DefaultHandler, NoneResp, sent.written, FALSE,
                    sent.result)
    /\ UNCHANGED << responder, package_handler, panicked, controller, call, discovery, line >>

WriteOutcomes == {"ok", "short", "error"}

\* driver.send_rdm(packet)
SendRdm ==
    /\ last.op = "packet"
    /\ \E write \in WriteOutcomes :
          SendDone("send_rdm", serialize_rdm_data(last.request), send_rdm(last.request, write))

\* driver.send_dmx_package(package)
SendDmxPackage ==
    /\ last.op = "package"
    /\ \E write \in WriteOutcomes :
          SendDone("send_dmx_package", << DMX_NULL_START >> \o last.wire,
                   send_dmx_package(last.wire, write))

\* driver.send_custom_package(start_code, package)
SendCustomPackage ==
    /\ last.op = "package"
    /\ \E write \in WriteOutcomes, start_code \in {23, 255} :
          SendDone("send_custom_package", << start_code >> \o last.wire,
                   send_custom_package(start_code, last.wire, write))

\* StatusMessage::deserialize(&status.serialize()); the fields of the message
\* given are kept in wire, its bytes in written and the fields of the message
\* made in the parameter data of response
StatusRoundTrip ==
    /\ last.op = "status_message"
    /\ LET m == StatusMessage(last.wire[1], last.wire[2], last.wire[3], last.wire[4], last.wire[5])
           made == StatusMessageDeserialize(StatusMessageSerialize(m))
       IN  last' = Last("status_round_trip", last.wire, NoReq, DefaultHandler,
                        [NoneResp EXCEPT !.parameter_data =
                            IF made.ok THEN StatusFields(made.data) ELSE << >>],
                        StatusMessageSerialize(m), FALSE,
                        IF made.ok THEN "Ok" ELSE made.err)
    /\ UNCHANGED << responder, package_handler, panicked, controller, call, discovery, line >>

\* the identifier of an input of 6 bytes
UidFromBytes(bytes) == Uid(U16FromBytes(SubSeq(bytes, 1, 2)), SubSeq(bytes, 3, 6))

\* deserialize_discovery_response on the frame send_rdm_discovery_response builds
DiscoveryRoundTrip ==
    /\ last.op = "uid"
    /\ AddressDone("discovery_round_trip", send_rdm_discovery_response(UidFromBytes(last.wire)),
                   Device(UidFromBytes(last.wire)),
                   AsDevice(deserialize_discovery_response(
                                send_rdm_discovery_response(UidFromBytes(last.wire)))))

\* deserialize_discovery_response on that frame with one byte of it changed
DiscoveryDamage ==
    /\ last.op = "uid"
    /\ \E i \in 1..24 :
         \E v \in DamagedValues(send_rdm_discovery_response(UidFromBytes(last.wire))[i]) :
            AddressDone("discovery_damage",
                        Replaced(send_rdm_discovery_response(UidFromBytes(last.wire)), i, v),
                        Device(UidFromBytes(last.wire)),
                        AsDevice(deserialize_discovery_response(
                            Replaced(send_rdm_discovery_response(UidFromBytes(last.wire)), i, v))))

NextCodec ==
    \/ RoundTrip
    \/ DiscoveryRoundTrip
    \/ DiscoveryDamage
    \/ SendRdm
    \/ SendDmxPackage
    \/ SendCustomPackage
    \/ StatusRoundTrip
    \/ Damage
    \/ UidNew
    \/ UidSetManufacturer
    \/ UidSetDevice
    \/ UidTryFrom
    \/ AddressFromBytes
    \/ UidRoundTrip
    \/ AddressRoundTrip
    \/ AddressTryFrom

SpecCodec == InitCodec /\ [][NextCodec]_vars

(***************************************************************************)
(* Properties of DISC_UNIQUE_BRANCH                                        *)
(***************************************************************************)
\* a poll decoded a DISC_UNIQUE_BRANCH discovery command that passed the
\* address filter of the responder in state s
BranchCommand(l, s) ==
    /\ l.op = "poll"
    /\ l.request.type = "Request"
    /\ AddressedToMe(s, l.request)
    /\ l.request.command_class = DiscoveryCommand
    /\ l.request.parameter_id = DISC_UNIQUE_BRANCH

\* lo <= own uid <= hi for the two 48-bit big-endian bounds of the payload
BetweenBounds(s, data) ==
    /\ BytesLeq(SubSeq(data, 1, 6), UidToBytes(s.uid))
    /\ BytesLeq(UidToBytes(s.uid), SubSeq(data, 7, 12))

\* the responder in state s has to answer the probe
HasToAnswer(s, data) ==
    ~s.discovery_muted /\ Len(data) = 12 /\ BetweenBounds(s, data)

\* a step of the model that agrees with C11, as amended below
C11_BranchStep ==
    BranchCommand(last', responder)
        => /\ responder' = responder
           /\ last'.written = << >>
           /\ HasToAnswer(responder, last'.request.parameter_data)
                 => (last'.disc \/ last'.result = "DriverError")
           /\ ~HasToAnswer(responder, last'.request.parameter_data) => ~last'.disc
           /\ (Len(last'.request.parameter_data) = 12
               /\ ~HasToAnswer(responder, last'.request.parameter_data))
                 => last'.result = "Ok(true)"
           /\ Len(last'.request.parameter_data) # 12 => last'.result = "WrongPackageSize"

ForAnother(request, s) ==
    \/ /\ request.destination_uid.kind = "Device"
       /\ request.destination_uid.uid # s.uid
    \/ /\ request.destination_uid.kind = "ManufacturerBroadcast"
       /\ request.destination_uid.manufacturer # s.uid.manufacturer_uid

\* the engine in state s went to state t on the request of l without a trace
Ignored(l, s, t) ==
    /\ t = s
    /\ l.response = NoneResp
    /\ l.written = << >>
    /\ ~l.disc
    /\ l.result = IF l.op = "poll" THEN "Ok(true)" ELSE "NoResponse"

\* the engine in state s processed the request of l and went to state t
Processed(l, s, t) ==
    /\ (l.request.parameter_id = DISC_MUTE) => t.discovery_muted
    /\ (l.request.parameter_id = DISC_UN_MUTE) => ~t.discovery_muted
    /\ (l.request.parameter_id = DISC_UNIQUE_BRANCH /\ ~s.discovery_muted) => l.disc
    /\ (l.request.parameter_id = DMX_START_ADDRESS /\ l.request.command_class = SetCommand)
          => t.dmx_start_address = U16FromBytes(l.request.parameter_data)
    /\ (l.request.parameter_id = IDENTIFY_DEVICE) => t = ApplyContext(s, [ctx |-> l.ctx])

\* what C12 asks of a call that took the engine from state s to state t
Filtered(l, s, t) ==
    /\ ForAnother(l.request, s) => Ignored(l, s, t)
    /\ l.request.destination_uid = Broadcast => Processed(l, s, t)

\* a step of the model that agrees with C12, as stated below
C12_FilterStep ==
    /\ (last'.op = "poll" /\ last'.request.type = "Request")
          => Filtered(last', responder, responder')
    /\ last'.op = "handle_rdm_request" => Filtered(last', package_handler, package_handler')

\* C12: a request to a Device uid that is not the responder's, or to the
\* ManufacturerBroadcast of another manufacturer, gets no response, no call of
\* the handler and no change of any state field of the responder; a request to
\* the global Broadcast is always processed.
C12_OnlyItsOwnRequests == [][C12_FilterStep]_vars

\* a muted responder whose handler would have unmuted it has ignored a request
\* to the devices of another manufacturer
C12_Witness ==
    /\ last.op = "poll"
    /\ last.request.destination_uid = ManufacturerBroadcast(2)
    /\ last.request.parameter_id = IDENTIFY_DEVICE
    /\ last.handler = "Acknowledged"
    /\ last.ctx = "unmute"
    /\ responder.discovery_muted
    /\ last.result = "Ok(true)"

(***************************************************************************)
(* Properties of QUEUED_MESSAGE                                            *)
(***************************************************************************)
\* the queue `after` is the queue `before` without its i-th message, and
\* `response` is that message renumbered for `request`
PoppedAt(before, after, i, request, response) ==
    /\ after = SubSeq(before, 1, i - 1) \o SubSeq(before, i + 1, Len(before))
    /\ response = [before[i] EXCEPT !.message_count = Len(after),
                                    !.transaction_number = request.transaction_number]

\* a step of the model that agrees with C13, as stated below
C13_PopStep ==
    DrainRequest(last', responder, QUEUED_MESSAGE)
        => /\ Len(responder.message_queue) > 0
                 => \E i \in 1..Len(responder.message_queue) :
                        PoppedAt(responder.message_queue, responder'.message_queue, i,
                                 last'.request, last'.response)
           /\ (Len(responder.message_queue) = 0 /\ Len(responder.status_vec) = 0)
                 => /\ last'.response.type = "Response"
                    /\ last'.response.response_type = ResponseTypeAck
                    /\ last'.response.parameter_id = STATUS_MESSAGES
                    /\ last'.response.parameter_data = << >>
                    /\ responder'.message_queue = << >>

\* C13: a GET QUEUED_MESSAGE with status type Advisory, Warning or Error on a
\* non-empty message_queue removes exactly one message and returns it with
\* message_count set to the length of the queue after the pop and
\* transaction_number set to the one of the request, its other fields as
\* enqueued; with message_queue and status_vec both empty the reply is an Ack
\* with pid STATUS_MESSAGES and an empty payload.
C13_PopsOneMessage == [][C13_PopStep]_vars

\* one of two queued messages has been popped and returned to request 2
C13_Witness ==
    /\ DrainRequest(last, responder, QUEUED_MESSAGE)
    /\ Len(responder.message_queue) = 1
    /\ last.response.type = "Response"
    /\ last.response.parameter_id \in {IDENTIFY_DEVICE, DMX_START_ADDRESS}
    /\ last.response.message_count = 1
    /\ last.response.transaction_number = 2

\* a poll decoded a GET QUEUED_MESSAGE to the responder's own uid, sub device
\* 0, with status type GetLastMessage
ReplayRequest(l, s) ==
    /\ l.op = "poll"
    /\ l.request.type = "Request"
    /\ l.request.destination_uid = Device(s.uid)
    /\ l.request.command_class = GetCommand
    /\ l.request.sub_device = 0
    /\ l.request.parameter_id = QUEUED_MESSAGE
    /\ l.request.parameter_data = << StatusGetLastMessage >>

\* what a replay keeps of a reply: everything but message_count and
\* transaction_number
Kept(response) ==
    IF response.type = "None" THEN response
    ELSE [response EXCEPT !.message_count = 0, !.transaction_number = 0]

\* a step of the model that agrees with C14, as stated below: a reply to a
\* drain is remembered, a replay returns what is remembered, renumbered, and
\* no other step touches what is remembered
C14_ReplayStep ==
    /\ DrainRequest(last', responder, QUEUED_MESSAGE)
          => (last'.response.type = "Response"
              /\ responder'.last_queued_message = last'.response)
    /\ ReplayRequest(last', responder)
          => /\ responder.last_queued_message.type = "None"
                   => (/\ last'.response.type = "Response"
                       /\ last'.response.response_type = ResponseTypeAck
                       /\ last'.response.parameter_id = QUEUED_MESSAGE
                       /\ last'.response.parameter_data = << >>
                       /\ last'.response.transaction_number = last'.request.transaction_number
                       /\ responder'.last_queued_message.type = "None")
             /\ responder.last_queued_message.type # "None"
                   => last'.response =
                         [responder.last_queued_message EXCEPT
                             !.message_count = Len(responder.message_queue),
                             !.transaction_number = last'.request.transaction_number]
    /\ ~DrainRequest(last', responder, QUEUED_MESSAGE)
          => Kept(responder'.last_queued_message) = Kept(responder.last_queued_message)

\* C14: a GET QUEUED_MESSAGE with status type GetLastMessage returns the reply
\* most recently made to a QUEUED_MESSAGE request with status type Advisory,
\* Warning or Error (same pid, response type and payload), with message_count
\* rewritten to the current length of the queue and transaction_number to the
\* one of the current request; if there was no such reply it returns an Ack
\* with an empty payload.
C14_ReplaysLastReply == [][C14_ReplayStep]_vars

\* a delivered message has been replayed to request 2 after the host queued
\* another message
C14_Witness ==
    /\ ReplayRequest(last, responder)
    /\ last.response.type = "Response"
    /\ last.response.parameter_id = IDENTIFY_DEVICE
    /\ last.response.message_count = 1
    /\ last.response.transaction_number = 2
    /\ Len(responder.message_queue) = 1

(***************************************************************************)
(* Properties of rdm_request                                               *)
(***************************************************************************)
\* a step of the model that agrees with C15, as stated below
C15_BroadcastStep ==
    (last'.op = "rdm_request" /\ last'.request.destination_uid.kind # "Device")
        => /\ call'.pc = "done"
           /\ controller'.last_message_count = controller.last_message_count
           /\ IF last'.written = serialize_rdm_data(last'.request)
              THEN call'.result = "RequestWasBroadcast"
              ELSE call'.result = "DmxError"

\* C15: an rdm_request to Broadcast or to a ManufacturerBroadcast transmits
\* the request and returns RequestWasBroadcast without a read on the driver
\* (the call is over, it never enters the receive loop), and
\* last_message_count stays as it was; when the driver fails to transmit, the
\* call returns its error instead.
C15_BroadcastNotAwaited == [][C15_BroadcastStep]_vars

\* a broadcast went out after a response with message count 3 was accepted
C15_Witness ==
    /\ last.op = "rdm_request"
    /\ last.request.destination_uid = ManufacturerBroadcast(1)
    /\ last.written = serialize_rdm_data(last.request)
    /\ call.pc = "done"
    /\ call.result = "RequestWasBroadcast"
    /\ controller.last_message_count = 3

\* the receive loop got a Response with the transaction number of the call
MatchingResponse(l, c, cl) ==
    /\ cl.pc = "reading"
    /\ l.op = "receive_rdm"
    /\ l.response.type = "Response"
    /\ l.response.transaction_number = c.current_transaction_id

\* a step of the model that agrees with C20, as stated below
C20_CountStep ==
    MatchingResponse(last', controller, call)
        => /\ call'.pc = "done"
           /\ IF last'.response.destination_uid # Device(controller.uid)
              THEN /\ call'.result = "NotMatching"
                   /\ controller'.last_message_count = controller.last_message_count
              ELSE /\ call'.result # "NotMatching"
                   /\ last'.response.response_type \in ResponseTypes
                   /\ controller'.last_message_count = last'.response.message_count

\* C20: a Response with the matching transaction number whose destination is
\* not Device(uid of the controller) makes rdm_request fail with NotMatching
\* and leaves last_message_count as it was; after every accepted response
\* (Ack, AckOverflow, AckTimer, NackReason) last_message_count is the
\* message_count of that response.
C20_CountOfAcceptedResponse == [][C20_CountStep]_vars

\* a response for another controller, with message count 0, was refused after
\* a nack with message count 3 had been accepted
C20_Witness ==
    /\ last.op = "receive_rdm"
    /\ last.response.type = "Response"
    /\ last.response.destination_uid = Device(OtherUid)
    /\ last.response.transaction_number = controller.current_transaction_id
    /\ last.response.message_count = 0
    /\ call.result = "NotMatching"
    /\ controller.last_message_count = 3

(***************************************************************************)
(* Properties of rdm_discover                                              *)
(***************************************************************************)
\* C16: after a DISC_UNIQUE_BRANCH probe went out, bytes that arrive make
\* rdm_discover return Found or Collision, never a deserialization error, and
\* Collision when fewer than 16 bytes were received.
C16_BytesAreFoundOrCollision ==
    (/\ last.op = "rdm_discover"
     /\ last.written = serialize_rdm_data(last.request)
     /\ Len(last.wire) > 0)
        => /\ last.result = "Ok"
           /\ last.response.kind \in {"Found", "Collision"}
           /\ Len(last.wire) < 16 => last.response = Collision

(***************************************************************************)
(* Properties of DMX_START_ADDRESS                                         *)
(***************************************************************************)
\* a poll decoded a request with command class cc and parameter id pid that
\* is for the responder in state s
Addressed(l, s, cc, pid) ==
    /\ l.op = "poll"
    /\ l.request.type = "Request"
    /\ ~ForAnother(l.request, s)
    /\ l.request.command_class = cc
    /\ l.request.parameter_id = pid

\* the reply is what a unicast request has to get; a broadcast gets none
Replied(l, response_type, data) ==
    IF l.request.destination_uid.kind = "Device"
    THEN /\ l.response.type = "Response"
         /\ l.response.response_type = response_type
         /\ l.response.parameter_id = l.request.parameter_id
         /\ l.response.parameter_data = data
    ELSE l.response = NoneResp

\* a nack reason on the wire: 16 bits, big-endian
ReasonBytes(reason) == << reason \div 256, reason % 256 >>

\* the 2-byte payload as a number
PayloadValue(data) == data[1] * 256 + data[2]

\* a step of the model that agrees with C17, as stated below
C17_SetStep ==
    /\ Addressed(last', responder, SetCommand, DMX_START_ADDRESS)
          => IF Len(last'.request.parameter_data) # 2
             THEN /\ responder' = responder
                  /\ Replied(last', ResponseTypeNackReason, ReasonBytes(NackFormatError))
             ELSE IF /\ PayloadValue(last'.request.parameter_data) # 65535
                     /\ PayloadValue(last'.request.parameter_data) \notin 1..512
             THEN /\ responder' = responder
                  /\ Replied(last', ResponseTypeNackReason, ReasonBytes(NackDataOutOfRange))
             ELSE /\ responder' = [responder EXCEPT !.dmx_start_address =
                                      PayloadValue(last'.request.parameter_data)]
                  /\ Replied(last', ResponseTypeAck, << >>)
    /\ Addressed(last', responder, GetCommand, DMX_START_ADDRESS)
          => /\ responder' = responder
             /\ Replied(last', ResponseTypeAck,
                        << responder.dmx_start_address \div 256,
                           responder.dmx_start_address % 256 >>)

\* C17: a SET DMX_START_ADDRESS whose payload is not exactly 2 bytes is
\* answered with Nack(FormatError), one whose 2-byte value is neither 0xFFFF
\* nor in 1..512 with Nack(DataOutOfRange), and both leave dmx_start_address
\* and every other state field as they were; a valid value is stored and
\* answered with an Ack, and a GET returns the stored value.
C17_StartAddressChecked == [][C17_SetStep]_vars

\* a GET has returned the address 512 that a SET had stored
C17_Witness ==
    /\ Addressed(last, responder, GetCommand, DMX_START_ADDRESS)
    /\ last.response.type = "Response"
    /\ last.response.parameter_data = << 2, 0 >>
    /\ responder.dmx_start_address = 512

(***************************************************************************)
(* Properties of STATUS_MESSAGES                                           *)
(***************************************************************************)
\* C18: a unicast GET STATUS_MESSAGES is answered with Nack(FormatError) when
\* its payload is not exactly one byte, with Nack(DataOutOfRange) when the
\* byte is no known StatusType (0x05 for one), and with an Ack with an empty
\* payload when the byte is StatusNone.
C18_StatusTypeChecked ==
    (/\ Addressed(last, responder, GetCommand, STATUS_MESSAGES)
     /\ last.request.destination_uid.kind = "Device"
     /\ last.request.sub_device = 0)
        => /\ Len(last.request.parameter_data) # 1
                 => Replied(last, ResponseTypeNackReason, ReasonBytes(NackFormatError))
           /\ (/\ Len(last.request.parameter_data) = 1
               /\ last.request.parameter_data[1] \notin {0, 1, 2, 3, 4, 18, 19, 20})
                 => Replied(last, ResponseTypeNackReason, ReasonBytes(NackDataOutOfRange))
           /\ last.request.parameter_data = << StatusNone >>
                 => Replied(last, ResponseTypeAck, << >>)

(***************************************************************************)
(* Properties of the responder under noise                                 *)
(***************************************************************************)
\* the driver handed over a frame with start code 0xCC that RdmData::deserialize
\* does not decode
FailsTheCodec(package) ==
    /\ package.ok
    /\ Len(package.frame) > 0
    /\ package.frame[1] = SC_RDM
    /\ ~deserialize_rdm_data(package.frame).ok

\* C19: when a frame with start code 0xCC fails the codec (wrong checksum,
\* start code, sub start code or message length, unknown command class,
\* buffer too small or too big), the packet is dropped silently: nothing is
\* written, and poll returns without an error to its caller.
C19_NoiseDroppedSilently ==
    (/\ last.op = "poll"
     /\ FailsTheCodec(receive_package(DriverEvent("frame", last.wire, "ok"))))
        => /\ ~panicked
           /\ last.written = << >>
           /\ last.result = "Ok(true)"

\* a step of the model that agrees with C21, as stated below
C21_OutcomeStep ==
    (/\ MatchingResponse(last', controller, call)
     /\ last'.response.destination_uid = Device(controller.uid))
        => /\ call'.data = last'.response.parameter_data
           /\ CASE last'.response.response_type = ResponseTypeAck ->
                     call'.result = "Response"
                [] last'.response.response_type = ResponseTypeAckOverflow ->
                     call'.result = "IncompleteResponse"
                [] last'.response.response_type = ResponseTypeAckTimer ->
                     IF Len(last'.response.parameter_data) = 2
                     THEN /\ call'.result = "NotReady"
                          /\ call'.value = PayloadValue(last'.response.parameter_data)
                     ELSE call'.result = "ErrorNotDeserializable"
                [] last'.response.response_type = ResponseTypeNackReason ->
                     IF /\ Len(last'.response.parameter_data) = 2
                        /\ PayloadValue(last'.response.parameter_data) <= 10
                     THEN /\ call'.result = "NotAcknowledged"
                          /\ call'.value = PayloadValue(last'.response.parameter_data)
                     ELSE call'.result = "ErrorNotDeserializable"
                [] OTHER -> FALSE

\* C21: rdm_request maps an accepted response by its response type: Ack gives
\* Response(info), AckOverflow gives IncompleteResponse(info), AckTimer gives
\* NotReady(d) with d the big-endian u16 of a payload of exactly 2 bytes and
\* ErrorNotDeserializable otherwise, NackReason gives NotAcknowledged(r) when
\* the payload is exactly 2 bytes that encode a known reason r and
\* ErrorNotDeserializable otherwise.
C21_OutcomeByResponseType == [][C21_OutcomeStep]_vars

\* an AckTimer with the payload 01 02 has made the call return NotReady(258)
C21_Witness ==
    /\ last.op = "receive_rdm"
    /\ last.response.type = "Response"
    /\ last.response.response_type = ResponseTypeAckTimer
    /\ call.pc = "done"
    /\ call.result = "NotReady"
    /\ call.value = 258

(***************************************************************************)
(* Properties of the codecs                                                *)
(***************************************************************************)
\* C22: for every valid packet p, deserialize(serialize(p)) equals p in every
\* field, message_count included.
C22_RoundTrip ==
    last.op = "round_trip" => (last.result = "Ok" /\ last.response = last.request)

\* the bytes of wire are those of frame but for one byte before the checksum
OneByteChanged(frame, wire) ==
    /\ Len(wire) = Len(frame)
    /\ \E i \in 1..(Len(frame) - 2) :
          /\ wire[i] # frame[i]
          /\ \A j \in 1..Len(frame) : j # i => wire[j] = frame[j]

\* C24: a serialized packet with any single byte outside the two checksum bytes
\* replaced by a different value fails to deserialize with WrongChecksum, and
\* with no other error, also when the byte is the start code, the sub start
\* code or the message length.
C24_DamageIsWrongChecksum ==
    (last.op = "damage" /\ OneByteChanged(serialize_rdm_data(last.request), last.wire))
        => last.result = "WrongChecksum"

\* a packet whose start code was changed fails with WrongChecksum
C24_Witness ==
    /\ last.op = "damage"
    /\ OneByteChanged(serialize_rdm_data(last.request), last.wire)
    /\ last.wire[1] # SC_RDM
    /\ last.result = "WrongChecksum"

(***************************************************************************)
(* Properties of the construction of addresses                             *)
(***************************************************************************)
\* the calls of the public interface that hand out a UniqueIdentifier
MakesIdentifier ==
    last.op \in {"new", "set_manufacturer_uid", "set_device_uid", "uid_try_from", "from_bytes"}

\* C25: every UniqueIdentifier obtained from UniqueIdentifier::new, the setters,
\* TryFrom<u64> or PackageAddress::from_bytes has a manufacturer id other than
\* 0xFFFF and a device id other than 0xFFFFFFFF.
C25_IdentifierIsNoBroadcast ==
    (MakesIdentifier /\ last.result = "Ok" /\ last.response.destination_uid.kind = "Device")
        => /\ last.response.destination_uid.uid.manufacturer_uid # U16_MAX
           /\ last.response.destination_uid.uid.device_uid # U32_MAX

\* C26: UniqueIdentifier::try_from(u64::from(u)) is u for every valid u, and
\* PackageAddress::try_from(u64::from(a)) succeeds and is a for every address a.
C26_U64RoundTrip ==
    last.op \in {"uid_round_trip", "address_round_trip"}
        => (last.result = "Ok" /\ last.response.destination_uid = last.request.destination_uid)

(***************************************************************************)
(* Properties of the status type and of the writes of the driver layer     *)
(***************************************************************************)
\* C27: every StatusType goes to its wire byte and back to itself, so a
\* StatusMessage keeps its status_type across serialize and deserialize.
C27_StatusTypeKept ==
    last.op = "status_round_trip"
        => (last.result = "Ok" /\ last.response.parameter_data[2] = last.wire[2])

\* C28: a frame written through send_rdm, send_dmx_package or
\* send_custom_package fails with UartOverflow exactly when the UART reports
\* fewer bytes written than the frame has with its start code, and succeeds
\* when the whole frame was written.
C28_OverflowIffShortWrite ==
    (last.op \in {"send_rdm", "send_dmx_package", "send_custom_package"}
     /\ last.result # "DriverError")
        => /\ last.result = "UartOverflow" <=> Len(last.written) < Len(last.wire)
           /\ Len(last.written) = Len(last.wire) => last.result = "Ok"

(***************************************************************************)
(* Properties of the discovery response                                    *)
(***************************************************************************)
\* C23: the 24-byte discovery response built for a UID u is decoded by
\* deserialize_discovery_response back to u, and the frame with any single byte
\* changed is decoded to an error.
C23_DiscoveryResponseRoundTrip ==
    /\ last.op = "discovery_round_trip"
          => (last.result = "Ok" /\ last.response.destination_uid = last.request.destination_uid)
    /\ last.op = "discovery_damage" => last.result # "Ok"

(***************************************************************************)
(* Properties of the status drain: what is reported and what is removed    *)
(***************************************************************************)
\* the entries among the first 25 of a status_vec at or above the filter
AtOrAboveFilter(vec, status_filter) ==
    SelectSeq(Slice(vec, 0, Min(Len(vec), RDM_MAX_STATUS_PACKAGES_PER_REQUEST)),
              LAMBDA m : (m.status_type % 16) >= status_filter)

\* how often a status is in a status_vec
Occurrences(vec, status) == Cardinality({i \in 1..Len(vec) : vec[i] = status})

\* a step of the model that agrees with C29, as stated below
C29_DrainStep ==
    StatusDrain(last', responder)
        => LET served == AtOrAboveFilter(responder.status_vec, last'.request.parameter_data[1])
           IN  /\ last'.response.parameter_data = SerializeStatuses(served)
               /\ \A i \in 1..Len(responder.status_vec) :
                     Occurrences(responder.status_vec, responder.status_vec[i])
                        = Occurrences(responder'.status_vec, responder.status_vec[i])
                          + Occurrences(served, responder.status_vec[i])
               /\ Len(responder'.status_vec) = Len(responder.status_vec) - Len(served)

\* C29: in a status drain with filter F the entries removed from status_vec
\* are exactly the entries serialized into the reply, the first 25 at or above
\* F in their order: no status is lost unreported and none is reported twice.
C29_RemovedAreReported == [][C29_DrainStep]_vars

\* C30: for every status_vec and every filter of Advisory, Warning and Error,
\* also with two or more entries at or above the filter, the drain of
\* pop_filtered_statuses completes without a panic.
C30_DrainNeverPanics ==
    (\/ DrainRequest(last, responder, STATUS_MESSAGES)
     \/ DrainRequest(last, responder, QUEUED_MESSAGE) /\ Len(responder.message_queue) = 0)
        => last.result # "panic"

(***************************************************************************)
(* Properties of the paging of SUPPORTED_PARAMETERS                        *)
(***************************************************************************)
\* a poll decoded a GET SUPPORTED_PARAMETERS to the responder's own uid and
\* sub device 0
PagingRequest(l, s) ==
    /\ l.op = "poll"
    /\ l.request.type = "Request"
    /\ l.request.destination_uid = Device(s.uid)
    /\ l.request.command_class = GetCommand
    /\ l.request.sub_device = 0
    /\ l.request.parameter_id = SUPPORTED_PARAMETERS

\* the page a responder is at
PageOf(s) ==
    IF s.unfinished_request.some /\ s.unfinished_request.pid = SUPPORTED_PARAMETERS
    THEN s.unfinished_request.iteration ELSE 0

\* the pids of page `page` of a list
PidWindow(pids, page) ==
    SubSeq(pids, MAX_PIDS_PER_RESPONSE * page + 1,
           Min(Len(pids), MAX_PIDS_PER_RESPONSE * (page + 1)))

\* a step of the model that agrees with C31, as stated below
C31_WindowStep ==
    PagingRequest(last', responder)
        => LET pids == INTERNALLY_SUPPORTED_PIDS \o responder.supported_pids
           IN  /\ last'.response.type = "Response"
               /\ last'.response.parameter_data = PidBytes(PidWindow(pids, PageOf(responder)))
               /\ last'.response.response_type =
                     IF MAX_PIDS_PER_RESPONSE * (PageOf(responder) + 1) < Len(pids)
                     THEN ResponseTypeAckOverflow ELSE ResponseTypeAck
               /\ PageOf(responder') =
                     IF MAX_PIDS_PER_RESPONSE * (PageOf(responder) + 1) < Len(pids)
                     THEN PageOf(responder) + 1 ELSE 0

\* C31: every reply to GET SUPPORTED_PARAMETERS carries the pids of the current
\* window of 115 only, AckOverflow while pids remain and Ack with the last
\* window, so that the payloads of one cycle are QUEUED_MESSAGE,
\* STATUS_MESSAGES and the configured pids, each once, for any number of pids.
C31_RepliesAreWindows == [][C31_WindowStep]_vars

\* a step of the model that agrees with C32, as stated below
C32_FrameStep ==
    (last'.op = "poll" /\ ~(PagingRequest(last', responder) /\ last'.result # "panic"))
        => responder'.unfinished_request = responder.unfinished_request

UidFromU48(v) ==
    Uid(v.hi \div 256, << v.hi % 256, v.lo \div 65536, (v.lo \div 256) % 256, v.lo % 256 >>)

\* the uids a probe on this line reports
LineUids == {U48(0, 2), U48(0, 5)}

\* the results of rdm_discover: a DiscoveryOption or an error
ProbeErr == [kind |-> "Err", uid |-> U48(0, 0)]

ProbeResults == {NoDevice, Collision, ProbeErr} \cup {Found(u) : u \in LineUids}

\* the acknowledgement of a DISC_MUTE that responder src sends to the
\* controller under transaction number tn
MuteAck(c, src, tn) ==
    CodecOk(ResponseData(Device(c.uid), UidFromU48(src), tn, ResponseTypeAck, 0, 0,
                         DiscoveryCommandResponse, DISC_MUTE, DiscoveryMuteResponseSerialize))

\* what receive_rdm hands to rdm_request while it waits for the
\* acknowledgement of transaction tn: an acknowledgement of the muted
\* responder or of another one, of this transaction or of the one before, a
\* timeout or an error of the driver
MuteReads(c, tn) ==
    {MuteAck(c, src, t) : src \in LineUids, t \in {tn, (tn + 255) % 256}}
    \cup {CodecErr("TimeoutError"), CodecErr("DriverError")}

\* the reads of one wait: one, or a discarded one and the one after it
MuteLines(c, tn) ==
    {<< r >> : r \in MuteReads(c, tn)}
    \cup {<< MuteAck(c, src, (tn + 255) % 256), r >> : src \in LineUids, r \in MuteReads(c, tn)}

\* the receive loop of rdm_request on the reads of a line, in their order; a
\* line with nothing more on it times out
RECURSIVE ReceiveLoop(_, _, _)
ReceiveLoop(c, cl, reads) ==
    IF reads = << >>
    THEN [turn |-> Received(c, cl, CodecErr("TimeoutError")), err |-> "TimeoutError"]
    ELSE IF Received(c, cl, Head(reads)).outcome = "discarded"
    THEN ReceiveLoop(c, cl, Tail(reads))
    ELSE [turn |-> Received(c, cl, Head(reads)), err |-> Head(reads).err]

\* DiscoveryMuteResponse::deserialize
DiscoveryMuteResponseDeserializes(data) ==
    /\ Len(data) >= 2
    /\ Len(data) = 8 => AddrFromBytes(SubSeq(data, 3, 8)).kind = "Device"

\* deserialize_discovery_mute_response and the match of discover_range on it:
\* "Ok", "TimeoutError" or another error; by is the source of the response
\* rdm_request took for the answer
MuteResult(got) ==
    [result |-> IF got.turn.outcome = "Response"
                THEN IF DiscoveryMuteResponseDeserializes(got.turn.call.data)
                     THEN "Ok" ELSE "ParameterDataNotDeserializable"
                ELSE IF got.turn.outcome = "IncompleteResponse"
                THEN "ParameterDataNotDeserializable"
                ELSE IF got.turn.outcome = "DmxError" THEN got.err
                ELSE got.turn.outcome,
     by |-> IF got.turn.outcome \in {"Response", "IncompleteResponse"}
            THEN U48FromUid(got.turn.received.source_uid) ELSE NoSlot]

\* DmxController::rdm_disc_mute to Device(uid) on a line
disc_mute(c, uid, reads) ==
    MuteResult(ReceiveLoop(
        rdm_request(c, NoCall, DiscoveryCommand,
                    RdmRequest(Device(UidFromU48(uid)), DISC_MUTE, << >>), "ok").c,
        rdm_request(c, NoCall, DiscoveryCommand,
                    RdmRequest(Device(UidFromU48(uid)), DISC_MUTE, << >>), "ok").call,
        reads))

\* the results of a mute on a line
MuteResults(c, uid) ==
    {disc_mute(c, uid, reads) : reads \in MuteLines(c, (c.current_transaction_id + 1) % 256)}

NoMute == [result |-> "", by |-> NoSlot]

\* discover_range returns an error, and so does every caller up to the host
Failed(d) == [d EXCEPT !.pc = "failed", !.stack = << >>, !.returned = NoReturn]

\* discover_range from its probe to the end of its match, or to the call of
\* its upper half, on the result of the probe and on the result of the mute
\* of a found uid; muted holds the uids whose own acknowledgement was taken
ProbedOnLine(d, frame, probe, mute) ==
    IF probe.kind = "Err" THEN Failed(d)
    ELSE IF probe.kind # "Found" \/ frame.offset >= Len(d.uid_array)
    THEN Probed(d, frame, probe)
    ELSE IF mute.result = "TimeoutError" THEN Return(d, 0)
    ELSE IF mute.result # "Ok" THEN Failed(d)
    ELSE Return([d EXCEPT !.muted = IF mute.by = probe.uid THEN @ \cup {probe.uid} ELSE @,
                          !.uid_array[frame.offset + 1] = probe.uid], 1)

\* the ranges discover_range is called on: one uid, two, and wider ones, one
\* of them across the carry of the low half
Ranges ==
    {<< U48(0, 1), U48(0, 1) >>, << U48(0, 1), U48(0, 2) >>, << U48(0, 1), U48(0, 4) >>,
     << U48(0, 1), U48(0, 6) >>, << U48(0, Half - 2), U48(1, 2) >>}

\* what the last probe of a run and the mute after it came to
RangeLast(probe, mute) == [op |-> "discover_range", probe |-> probe, mute |-> mute]

\* the host calls discover_range on a range with a uid_array of some length
InitRange ==
    /\ InitResponder
    /\ InitController
    /\ \E range \in Ranges, slots \in 0..MaxDevices :
          discovery = [pc |-> "running", devices |-> {}, muted |-> {},
                       uid_array |-> [i \in 1..slots |-> NoSlot], found |-> 0,
                       stack |-> << Frame(range[1], range[2], 0, "probe", 0) >>,
                       returned |-> NoReturn]

RangeStep(d, probe, mute) ==
    /\ discovery' = d
    /\ last' = RangeLast(probe, mute)
    /\ UNCHANGED << responder, package_handler, panicked, controller, call, line >>

\* discover_range probes its range and, of a found uid, mutes the responder
ProbeRange ==
    /\ discovery.pc = "running"
    /\ Len(discovery.stack) > 0
    /\ discovery.stack[Len(discovery.stack)].pc = "probe"
    /\ \E probe \in ProbeResults :
          \E mute \in (IF probe.kind = "Found"
                          /\ discovery.stack[Len(discovery.stack)].offset < Len(discovery.uid_array)
                       THEN MuteResults(controller, probe.uid) ELSE {NoMute}) :
              RangeStep(ProbedOnLine(discovery, discovery.stack[Len(discovery.stack)],
                                     probe, mute), probe, mute)

NextRange ==
    \/ ProbeRange
    \/ DiscoverLowerHalf
    \/ DiscoverBothHalves
    \/ FullDiscoveryReturns

\* a call in progress takes its next step: the driver returns from every read
\* and write, at the latest when its timeout has passed
SpecRange == InitRange /\ [][NextRange]_vars /\ WF_vars(NextRange)

(***************************************************************************)
(* Properties of discover_range on a line that answers anything            *)
(***************************************************************************)
\* the number a bound stands for, for bounds below 2^31
U48Value(a) == a.hi * Half + a.lo

TopFrame(d) == d.stack[Len(d.stack)]

\* the call on top of the stack is at the given place and takes its step
FrameSteps(pc) ==
    /\ discovery.pc = "running"
    /\ Len(discovery.stack) > 0
    /\ TopFrame(discovery).pc = pc
    /\ discovery' # discovery

\* the step calls discover_range on [lower, upper] and leaves its caller
\* waiting at pc
Recurses(pc, lower, upper) ==
    /\ Len(discovery'.stack) = Len(discovery.stack) + 1
    /\ discovery'.stack[Len(discovery.stack)].pc = pc
    /\ TopFrame(discovery').pc = "probe"
    /\ U48Value(TopFrame(discovery').lower_bound) = lower
    /\ U48Value(TopFrame(discovery').upper_bound) = upper

\* the step returns Ok(0) to the caller without a call of discover_range
ReturnsZero ==
    /\ discovery'.stack = SubSeq(discovery.stack, 1, Len(discovery.stack) - 1)
    /\ discovery'.returned = 0

\* the steps of discover_range on the range lower .. upper of its top call: a
\* Collision on a range of width at most 1 returns 0, a Collision on a wider
\* one, with any slice or with a slice that has a slot only, makes the call on
\* [mid + 1, upper] and after it the call on [lower, mid], and no other
\* result makes a call
RecursionStep(lower, upper, with_any_slice) ==
    /\ (FrameSteps("probe") /\ last'.probe.kind = "Collision")
          => IF upper - lower <= 1 THEN ReturnsZero
             ELSE IF with_any_slice
                     \/ TopFrame(discovery).offset < Len(discovery.uid_array)
             THEN /\ Recurses("upper", (lower + upper) \div 2 + 1, upper)
                  /\ lower <= (lower + upper) \div 2
                  /\ (lower + upper) \div 2 < upper
             ELSE ReturnsZero
    /\ (FrameSteps("probe") /\ last'.probe.kind # "Collision")
          => Len(discovery'.stack) < Len(discovery.stack)
    /\ FrameSteps("upper") => Recurses("lower", lower, (lower + upper) \div 2)

\* the call of discover_range has returned to the host, with a count or with
\* an error
RangeReturned == discovery.pc \in {"done", "failed"}

\* C33 as stated: discover_range terminates for every sequence of probe
\* results; on a Collision it returns 0 without a call of its own when
\* upper - lower <= 1 and otherwise calls itself on [mid + 1, upper] and then
\* on [lower, mid], mid = (lower + upper) / 2, two non-empty disjoint smaller
\* ranges that cover [lower, upper]; on NoDevice and Found it makes no call.
C33_TerminatesAndSplits ==
    /\ [][RecursionStep(U48Value(TopFrame(discovery).lower_bound),
                        U48Value(TopFrame(discovery).upper_bound), TRUE)]_vars
    /\ <>RangeReturned

\* C33, amended: the same, where the Collision on a range wider than 1 makes
\* its calls when the uid_array slice of the call has a slot, and returns 0
\* without a call when the slice is empty.
C33_TerminatesAndSplitsWithASlot ==
    /\ [][RecursionStep(U48Value(TopFrame(discovery).lower_bound),
                        U48Value(TopFrame(discovery).upper_bound), FALSE)]_vars
    /\ <>RangeReturned

\* a Collision has split the range across the carry of the low half, the
\* upper half has returned and the lower half, up to the middle, is probed
C33_Witness ==
    /\ discovery.pc = "running"
    /\ last.op = "discover_range"
    /\ Len(discovery.stack) = 2
    /\ discovery.stack[1].pc = "lower"
    /\ discovery.stack[1].upper_bound = U48(1, 2)
    /\ discovery.stack[2].lower_bound = U48(0, Half - 2)
    /\ discovery.stack[2].upper_bound = U48(1, 0)
    /\ discovery.stack[2].offset < Len(discovery.uid_array)

\* the uids in the slots of a uid_array that were written
Recorded(uid_array) == {uid_array[i] : i \in 1..Len(uid_array)} \ {NoSlot}

\* the count a run returned and the slots it wrote: uid_array[0..n] and no
\* other, and every uid in them has acknowledged its DISC_MUTE
RecordedAreCountedAndMuted ==
    /\ discovery.pc = "done"
          => /\ discovery.found <= Len(discovery.uid_array)
             /\ \A i \in 1..Len(discovery.uid_array) :
                   (i <= discovery.found) <=> (discovery.uid_array[i] # NoSlot)
    /\ Recorded(discovery.uid_array) \subseteq discovery.muted

\* a step of discover_range writes a slot only for a Found uid whose mute was
\* acknowledged, the first slot of its slice, and counts it; it writes and
\* counts nothing when the mute times out; and the uid of a responder that is
\* in the probed range and not muted is in no slot yet
RecordStep ==
    /\ discovery'.uid_array # discovery.uid_array
          => /\ FrameSteps("probe")
             /\ last'.probe.kind = "Found"
             /\ last'.mute.result = "Ok"
             /\ TopFrame(discovery).offset < Len(discovery.uid_array)
             /\ discovery'.uid_array =
                   [discovery.uid_array EXCEPT ![TopFrame(discovery).offset + 1] =
                                                   last'.probe.uid]
             /\ discovery'.returned = 1
    /\ (FrameSteps("probe") /\ last'.probe.kind = "Found"
        /\ last'.mute.result = "TimeoutError")
          => /\ discovery'.uid_array = discovery.uid_array
             /\ discovery'.returned = 0
    /\ (FrameSteps("probe") /\ last'.probe.kind = "Found"
        /\ discovery'.uid_array # discovery.uid_array
        /\ U48Leq(TopFrame(discovery).lower_bound, last'.probe.uid)
        /\ U48Leq(last'.probe.uid, TopFrame(discovery).upper_bound)
        /\ last'.probe.uid \notin discovery.muted)
          => last'.probe.uid \notin Recorded(discovery.uid_array)

\* C34: run_full_discovery returns n <= uid_array.len() and writes the slots
\* uid_array[0..n] only; every uid it records was Found by a probe and has
\* acknowledged a DISC_MUTE before it was recorded, a Found uid whose mute
\* times out is neither recorded nor counted; and with responders that stay
\* muted the recorded uids are pairwise distinct.
C34_RecordsMutedFoundUids == [][RecordStep]_vars /\ []RecordedAreCountedAndMuted

(***************************************************************************)
(* rdm_request on a line that delays and repeats replies: the controller   *)
(* asks one responder again and again, and a reply stays on the line until *)
(* it is read or lost                                                      *)
(***************************************************************************)
\* the calls of rdm_request in a run: enough for the transaction counter to
\* come back to the number of the first request
MaxRequests == 257

\* a reply outlasts the next request only if it answers one of the first
\* MaxDelayed requests
MaxDelayed == 1

\* the responders that answer a request to ResponderUid: the one asked, and
\* another one
Answering == {ResponderUid, OtherUid}

\* the reply of responder src to the request the controller has just sent, the
\* number `requests` of the run
Reply(c, src, requests) ==
    [for |-> requests,
     response |-> ResponseData(Device(c.uid), src, c.current_transaction_id,
                               ResponseTypeAck, 0, 0, GetCommandResponse,
                               IDENTIFY_DEVICE, << requests % 2 >>)]

LineStep(out, l, op, response) ==
    /\ controller' = out.c
    /\ call' = out.call
    /\ line' = l
    /\ last' = Last(op, << >>, NoReq, DefaultHandler, response, << >>, FALSE,
                    out.call.result)
    /\ UNCHANGED << responder, package_handler, panicked, discovery >>

\* the host calls rdm_get(IDENTIFY_DEVICE) on the responder; the replies of
\* requests after the first ones are off the line by now, and the responder
\* asked, another one or none puts its reply on it
LineRequest ==
    /\ call.pc \in {"idle", "done"}
    /\ line.requests < MaxRequests
    /\ \E answers \in SUBSET Answering :
          Cardinality(answers) <= 1
          /\ LineStep(rdm_request(controller, call, GetCommand,
                                  RdmRequest(Device(ResponderUid), IDENTIFY_DEVICE, << >>),
                                  "ok"),
                      [requests |-> line.requests + 1,
                       replies |-> {r \in line.replies : r.for <= MaxDelayed}
                                   \cup {Reply(rdm_request(controller, call, GetCommand,
                                                           RdmRequest(Device(ResponderUid),
                                                                      IDENTIFY_DEVICE, << >>),
                                                           "ok").c, src, line.requests + 1) :
                                            src \in answers},
                       read |-> 0],
                      "rdm_request", NoneResp)

\* receive_rdm reads a reply off the line, which is there once or once more
LineRead ==
    /\ call.pc = "reading"
    /\ \E reply \in line.replies, again \in BOOLEAN :
          LineStep(Received(controller, call,
                            receive_rdm(DriverEvent("frame",
                                                    serialize_rdm_data(reply.response),
                                                    "ok"))),
                   [line EXCEPT !.replies = IF again THEN @ ELSE @ \ {reply},
                                !.read = reply.for],
                   "receive_rdm", reply.response)

\* receive_rdm times out
LineTimeout ==
    /\ call.pc = "reading"
    /\ LineStep(Received(controller, call, receive_rdm(DriverEvent("timeout", << >>, "ok"))),
                [line EXCEPT !.read = 0], "receive_rdm", NoneResp)

NextLine == LineRequest \/ LineRead \/ LineTimeout

SpecLine == Init /\ [][NextLine]_vars

(***************************************************************************)
(* Properties of rdm_request on that line                                  *)
(***************************************************************************)
\* rdm_request has returned the response it read last as its result
ReturnedAResponse ==
    /\ last.op = "receive_rdm"
    /\ call.pc = "done"
    /\ call.result \in {"Response", "IncompleteResponse", "NotReady", "NotAcknowledged"}

\* C35: in every interleaving of requests with delayed and repeated replies,
\* rdm_request never returns a response that was made for another, earlier
\* request, also after the 8-bit transaction counter has wrapped.
C35_NoAnswerOfAnEarlierRequest == ReturnedAResponse => line.read = line.requests

\* C36: rdm_request to Device(d) returns Response or IncompleteResponse only
\* for a response whose source is d; one with the transaction number of the
\* request and the controller as destination, but of another responder, is
\* not taken for the answer.
C36_AnswerIsOfTheResponderAsked ==
    (ReturnedAResponse /\ call.result \in {"Response", "IncompleteResponse"})
        => Device(last.response.source_uid) = call.destination_uid

(***************************************************************************)
(* RdmResponder::handle_rdm and                                            *)
(* RdmResponderPackageHandler::handle_rdm_request side by side: the two    *)
(* responders are given the same request and the same result of the        *)
(* user's handler                                                          *)
(***************************************************************************)
\* the requests given to both: to the responder and to all, of every command
\* class and every pid, and DISC_UNIQUE_BRANCH with and without its 12 bytes
BothRequests ==
    {Req(dst, 1, 0, cc, pid, << >>) :
        dst \in {Device(ResponderUid), Broadcast}, cc \in RequestCommandClasses,
        pid \in AllPids}
    \cup {Req(Broadcast, 1, 0, DiscoveryCommand, DISC_UNIQUE_BRANCH, data) :
            data \in {BranchAll, BranchNone, << 0, 0, 0, 0, 0, 1 >>}}
    \cup {Req(dst, 1, 0, SetCommand, DMX_START_ADDRESS, << 0, 1 >>) :
            dst \in {Device(ResponderUid), Broadcast}}

\* what the two calls were given and what each came to
BothLast(request, hr, polled, answered) ==
    [op |-> "both", request |-> request, handler |-> hr.kind, polled |-> polled,
     answered |-> answered]

BothDone(request, hr, polled, answered) ==
    /\ responder' = polled.s
    /\ package_handler' = answered.s
    /\ panicked' = (polled.panic \/ answered.panic)
    /\ last' = BothLast(request, hr, polled, answered)
    /\ UNCHANGED << controller, call, discovery, line >>

\* the request arrives at the RdmResponder in a frame and is handed to the
\* RdmResponderPackageHandler by its transport
Both(request, hr) ==
    /\ ~panicked
    /\ BothDone(request, hr,
                poll(responder, DriverEvent("frame", serialize_rdm_data(request), "ok"), hr),
                handle_rdm_request(package_handler, request, hr))

BothEngine ==
    \E request \in {r \in BothRequests : r.parameter_id # IDENTIFY_DEVICE} :
        Both(request, DefaultHandler)

BothHandler ==
    \E request \in {r \in BothRequests : r.parameter_id = IDENTIFY_DEVICE},
       hr \in HandlerResults :
        Both(request, hr)

NextBoth == BothEngine \/ BothHandler

SpecBoth == Init /\ [][NextBoth]_vars

(***************************************************************************)
(* Properties of the two responders side by side                           *)
(***************************************************************************)
\* what a transport would see of a poll, in the words of RdmAnswer
Observed(polled) ==
    IF polled.panic THEN "panic"
    ELSE IF polled.disc THEN "DiscoveryResponse"
    ELSE IF polled.response.type # "None" THEN "Response"
    ELSE IF polled.result = "Ok(true)" THEN "NoResponse"
    ELSE polled.result

\* C37: RdmResponder::handle_rdm and
\* RdmResponderPackageHandler::handle_rdm_request come to the same outcome (no
\* response, this response, a discovery response, the error of the handler)
\* and the same successor state for every state, request and handler result,
\* also for a DISC_UNIQUE_BRANCH whose payload is not 12 bytes and for a
\* Custom result on a broadcast request.
C37_SameOutcomeAndState ==
    last.op = "both"
        => /\ Observed(last.polled) = last.answered.kind
           /\ last.polled.response = last.answered.response
           /\ last.polled.s = last.answered.s

(***************************************************************************)
(* The responder under requests to all: SET DMX_START_ADDRESS, DISC_MUTE   *)
(* and DISC_UN_MUTE to Broadcast, to the broadcast of its manufacturer and *)
(* to its own uid, with payloads of every shape                            *)
(***************************************************************************)
BroadcastDestinations == {Broadcast, ManufacturerBroadcast(1), Device(ResponderUid)}

\* start addresses 1, 512 and NoAddress, the values 0 and 513, and payloads
\* that are no two bytes
BroadcastStartPayloads ==
    {<< 0, 1 >>, << 2, 0 >>, << 255, 255 >>, << 0, 0 >>, << 2, 1 >>, << >>, << 1 >>,
     << 0, 1, 0 >>}

BroadcastRequests ==
    {Req(dst, 1, 0, SetCommand, DMX_START_ADDRESS, data) :
        dst \in BroadcastDestinations, data \in BroadcastStartPayloads}
    \cup {Req(dst, 1, 0, DiscoveryCommand, pid, data) :
            dst \in BroadcastDestinations, pid \in {DISC_MUTE, DISC_UN_MUTE},
            data \in {<< >>, << 1 >>, << 0, 0 >>}}

PollBroadcast ==
    \E request \in BroadcastRequests :
        Poll(DriverEvent("frame", serialize_rdm_data(request), "ok"), DefaultHandler)

NextBroadcast == PollBroadcast

SpecBroadcast == Init /\ [][NextBroadcast]_vars

(***************************************************************************)
(* Properties of the responder under requests to all                       *)
(***************************************************************************)
\* the poll of this step decoded a request of the given class and pid to
\* Broadcast or to the broadcast of the responder's manufacturer
BroadcastPolled(command_class, pid) ==
    /\ last'.op = "poll"
    /\ last'.request.type = "Request"
    /\ last'.request.destination_uid
          \in {Broadcast, ManufacturerBroadcast(responder.uid.manufacturer_uid)}
    /\ last'.request.command_class = command_class
    /\ last'.request.parameter_id = pid

\* the poll of this step put nothing on the line
NothingSent ==
    /\ last'.result = "Ok(true)"
    /\ last'.written = << >>
    /\ last'.response.type = "None"
    /\ ~last'.disc

\* the value of a payload of two bytes is a start address: 1 to 512, or
\* 0xFFFF for none
StartAddressPayload(data) ==
    /\ Len(data) = 2
    /\ data[1] * 256 + data[2] \in (1..512) \cup {65535}

\* a step of the model that agrees with C38, as stated below
C38_BroadcastStep ==
    /\ BroadcastPolled(SetCommand, DMX_START_ADDRESS)
          => /\ NothingSent
             /\ responder' =
                   IF StartAddressPayload(last'.request.parameter_data)
                   THEN [responder EXCEPT !.dmx_start_address =
                            last'.request.parameter_data[1] * 256
                            + last'.request.parameter_data[2]]
                   ELSE responder
    /\ BroadcastPolled(DiscoveryCommand, DISC_MUTE)
          => /\ NothingSent
             /\ responder' =
                   IF last'.request.parameter_data = << >>
                   THEN [responder EXCEPT !.discovery_muted = TRUE] ELSE responder
    /\ BroadcastPolled(DiscoveryCommand, DISC_UN_MUTE)
          => /\ NothingSent
             /\ responder' =
                   IF last'.request.parameter_data = << >>
                   THEN [responder EXCEPT !.discovery_muted = FALSE] ELSE responder

\* C38: a SET DMX_START_ADDRESS to Broadcast or to the broadcast of the
\* responder's manufacturer with a valid value of two bytes sets
\* dmx_start_address and sends nothing, and with another payload changes
\* nothing and sends nothing; a DISC_MUTE or DISC_UN_MUTE to all with an empty
\* payload sets discovery_muted and sends nothing, and with a payload changes
\* nothing and sends nothing.
C38_BroadcastsActInSilence == [][C38_BroadcastStep]_vars

\* a muted responder with start address 512 has been given a DISC_UN_MUTE
\* with a payload by the broadcast of its manufacturer, and is muted still
C38_Witness ==
    /\ last.op = "poll"
    /\ last.request.type = "Request"
    /\ last.request.destination_uid = ManufacturerBroadcast(1)
    /\ last.request.parameter_id = DISC_UN_MUTE
    /\ last.request.parameter_data = << 1 >>
    /\ last.written = << >>
    /\ responder.discovery_muted
    /\ responder.dmx_start_address = 512

(***************************************************************************)
(* The responder with a host that queues messages and reports statuses,    *)
(* under drains, replays and requests it rejects                           *)
(***************************************************************************)
\* drains, replays and the probe with StatusNone
ConsumeRequests ==
    {Req(Device(ResponderUid), 1, 0, GetCommand, STATUS_MESSAGES, << st >>) :
        st \in {StatusNone, StatusGetLastMessage, StatusAdvisory, StatusError}}
    \cup {Req(Device(ResponderUid), 1, 0, GetCommand, QUEUED_MESSAGE, << st >>) :
            st \in {StatusGetLastMessage, StatusError}}

\* requests the responder answers with a Nack
NackedRequests ==
    {Req(Device(ResponderUid), 1, 1, GetCommand, QUEUED_MESSAGE, << StatusError >>),
     Req(Device(ResponderUid), 1, 0, SetCommand, STATUS_MESSAGES, << StatusError >>),
     Req(Device(ResponderUid), 1, 0, GetCommand, QUEUED_MESSAGE, << StatusNone >>),
     Req(Device(ResponderUid), 1, 0, GetCommand, IDENTIFY_DEVICE, << >>)}

PollConsume ==
    \E request \in ConsumeRequests \cup NackedRequests :
        Poll(DriverEvent("frame", serialize_rdm_data(request), "ok"), DefaultHandler)

\* the host queues the first of its messages
HostQueuesOne ==
    PushBack(ResponseData(Device(ControllerUid), ResponderUid, 0, ResponseTypeAck, 0, 0,
                          GetCommandResponse, IDENTIFY_DEVICE, << 1 >>))

\* the host reports an advisory or an error
HostReportsTwo ==
    \E st \in {StatusAdvisory, StatusError} : PushStatus(StatusMessage(0, st, 1, 0, 0))

NextConsume == HostQueuesOne \/ HostReportsTwo \/ PollConsume

SpecConsume == Init /\ [][NextConsume]_vars

(***************************************************************************)
(* Properties of replays and rejected requests                             *)
(***************************************************************************)
\* the poll of this step decoded a GET of pid with the one byte st as payload
GetPolled(pid, st) ==
    /\ last'.op = "poll"
    /\ last'.request.type = "Request"
    /\ last'.request.command_class = GetCommand
    /\ last'.request.parameter_id = pid
    /\ last'.request.parameter_data = << st >>

\* the poll of this step answered with a Nack
NackPolled ==
    /\ last'.op = "poll"
    /\ last'.response.type = "Response"
    /\ last'.response.response_type = ResponseTypeNackReason

\* the poll of this step answered with the statuses it drained under a filter:
\* a STATUS_MESSAGES reply to a GET STATUS_MESSAGES or, the message queue
\* being empty, to a GET QUEUED_MESSAGE with a filter
DrainPolled ==
    /\ last'.op = "poll"
    /\ last'.request.type = "Request"
    /\ last'.request.parameter_id \in {STATUS_MESSAGES, QUEUED_MESSAGE}
    /\ last'.request.parameter_data
          \in {<< StatusAdvisory >>, << StatusWarning >>, << StatusError >>}
    /\ last'.response.type = "Response"
    /\ last'.response.response_type = ResponseTypeAck
    /\ last'.response.parameter_id = STATUS_MESSAGES

\* a step of the model that agrees with C39, as stated below: replays, the
\* probe with StatusNone and rejected requests take nothing from the queues;
\* the payload of a drain is kept, a replay answers with the payload kept, and
\* nothing but a drain changes it
C39_ReplayStep ==
    /\ (\/ GetPolled(QUEUED_MESSAGE, StatusGetLastMessage)
        \/ GetPolled(STATUS_MESSAGES, StatusGetLastMessage)
        \/ GetPolled(STATUS_MESSAGES, StatusNone)
        \/ NackPolled)
          => /\ responder'.message_queue = responder.message_queue
             /\ responder'.status_vec = responder.status_vec
    /\ DrainPolled
          => responder'.last_status_vec_message = last'.response.parameter_data
    /\ (last'.op = "poll" /\ last'.result # "panic" /\ ~DrainPolled)
          => responder'.last_status_vec_message = responder.last_status_vec_message
    /\ (GetPolled(STATUS_MESSAGES, StatusGetLastMessage)
        /\ last'.request.destination_uid = Device(responder.uid)
        /\ last'.request.sub_device = 0)
          => /\ last'.response.type = "Response"
             /\ last'.response.response_type = ResponseTypeAck
             /\ last'.response.parameter_data = responder.last_status_vec_message

\* C39: GET QUEUED_MESSAGE and GET STATUS_MESSAGES with GetLastMessage, GET
\* STATUS_MESSAGES with StatusNone and every request answered with a Nack
\* leave message_queue and status_vec as they are; and after a reply that
\* drained statuses under a filter with payload P, GET STATUS_MESSAGES with
\* GetLastMessage answers P, again and again, until the next such drain.
C39_ReplaysConsumeNothing == [][C39_ReplayStep]_vars

\* a replay has answered with the statuses of the last drain while a message
\* and a status wait in the queues
C39_Witness ==
    /\ last.op = "poll"
    /\ last.request.type = "Request"
    /\ last.request.parameter_id = STATUS_MESSAGES
    /\ last.request.parameter_data = << StatusGetLastMessage >>
    /\ last.response.type = "Response"
    /\ last.response.parameter_data # << >>
    /\ Len(responder.message_queue) > 0
    /\ Len(responder.status_vec) > 0

(***************************************************************************)
(* The responder under requests for the pids it answers to GET only, of    *)
(* every destination, sub device and command class, with a host that       *)
(* reports statuses                                                        *)
(***************************************************************************)
GetOnlyPids ==
    {SUPPORTED_PARAMETERS, DEVICE_INFO, SOFTWARE_VERSION_LABEL, QUEUED_MESSAGE,
     STATUS_MESSAGES}

GetOnlyRequests ==
    {Req(dst, 1, sub, cc, pid, << StatusError >>) :
        dst \in BroadcastDestinations, sub \in {0, 1}, cc \in RequestCommandClasses,
        pid \in GetOnlyPids}

PollGetOnly ==
    \E request \in GetOnlyRequests :
        Poll(DriverEvent("frame", serialize_rdm_data(request), "ok"), DefaultHandler)

NextGetOnly == HostReportsTwo \/ PollGetOnly

SpecGetOnly == Init /\ [][NextGetOnly]_vars

(***************************************************************************)
(* Properties of the preconditions of a GET                                *)
(***************************************************************************)
\* the poll of this step decoded a request for a GET-only pid that is for this
\* responder
GetOnlyPolled ==
    /\ last'.op = "poll"
    /\ last'.request.type = "Request"
    /\ last'.request.parameter_id \in GetOnlyPids
    /\ last'.request.destination_uid
          \in {Device(responder.uid), Broadcast,
               ManufacturerBroadcast(responder.uid.manufacturer_uid)}

\* the poll of this step answered with a Nack of the given reason and left the
\* responder as it was
Rejected(reason) ==
    /\ last'.response.type = "Response"
    /\ last'.response.response_type = ResponseTypeNackReason
    /\ last'.response.parameter_data = << reason \div 256, reason % 256 >>
    /\ last'.written = serialize_rdm_data(last'.response)
    /\ responder' = responder

\* the poll of this step sent nothing and left the responder as it was
IgnoredAsItWas == NothingSent /\ responder' = responder

\* C40 as stated: for the GET-only pids the preconditions are checked in the
\* stated order and the first one that fails decides the answer: a broadcast
\* destination gives no response, otherwise sub_device # 0 gives
\* Nack(SubDeviceOutOfRange), otherwise a command class other than GET gives
\* Nack(UnsupportedCommandClass), and no rejection changes the responder.
C40_SubDeviceBeforeCommandClass ==
    [][GetOnlyPolled
        => IF is_broadcast(last'.request.destination_uid) THEN IgnoredAsItWas
           ELSE IF last'.request.sub_device # 0 THEN Rejected(NackSubDeviceOutOfRange)
           ELSE last'.request.command_class # GetCommand
                   => Rejected(NackUnsupportedCommandClass)]_vars

\* C40, amended: a broadcast destination gives no response; otherwise a
\* DISCOVERY command gives no response and a SET command gives
\* Nack(UnsupportedCommandClass), whatever the sub device; otherwise
\* sub_device # 0 gives Nack(SubDeviceOutOfRange); and no rejection changes
\* the responder.
C40_CommandClassBeforeSubDevice ==
    [][GetOnlyPolled
        => IF is_broadcast(last'.request.destination_uid) THEN IgnoredAsItWas
           ELSE IF last'.request.command_class = DiscoveryCommand THEN IgnoredAsItWas
           ELSE IF last'.request.command_class # GetCommand
           THEN Rejected(NackUnsupportedCommandClass)
           ELSE last'.request.sub_device # 0 => Rejected(NackSubDeviceOutOfRange)]_vars

\* a SET STATUS_MESSAGES to sub device 1 of a responder with a status to
\* report was answered with Nack(UnsupportedCommandClass)
C40_Witness ==
    /\ last.op = "poll"
    /\ last.request.type = "Request"
    /\ last.request.destination_uid = Device(ResponderUid)
    /\ last.request.parameter_id = STATUS_MESSAGES
    /\ last.request.command_class = SetCommand
    /\ last.request.sub_device = 1
    /\ last.response.response_type = ResponseTypeNackReason
    /\ last.response.parameter_data = << 0, NackUnsupportedCommandClass >>
    /\ Len(responder.status_vec) > 0

====
